---- MODULE Spec2Model ----
(***************************************************************************)
(* CUBIC congestion control with the SEARCH slow-start-exit detector.      *)
(*                                                                         *)
(* Two source files are modelled:                                          *)
(*   src/src/tcp_cubic_search.c        "cubic_search" (SEARCH v3, union)   *)
(*   src/dev-in-progress/tcp_cubic.c   "cubicv2" (SEARCH with heap bins)   *)
(* The CUBIC window model (bictcp_update, bictcp_recalc_ssthresh,          *)
(* cubic_root, the TX_START epoch shift) is the same text in both files;   *)
(* its definitions are translated from src/src/tcp_cubic_search.c.         *)
(*                                                                         *)
(* Numbers.  TLC's integers are 32-bit signed, the program's are u32, s32  *)
(* and u64.  Every quantity that can exceed 2^31 - 1 in the program is     *)
(* held as a "Big": a little-endian sequence of 15-bit limbs, with the     *)
(* truncation to 32 or 64 bits applied where the C type applies it.        *)
(* Timestamps (u32 jiffies and microseconds) are held by their signed      *)
(* 32-bit reading, so that 0 is the wrap point and a negative value is a   *)
(* time shortly before the wrap; the specifications keep the clocks in a   *)
(* window around 0, where (s32)(a - b) is the integer a - b.               *)
(***************************************************************************)
EXTENDS Integers, Sequences, FiniteSets, TLC

(***************************************************************************)
(* Wide unsigned arithmetic on limb sequences (u64 and wider).             *)
(***************************************************************************)
\* a local of the C code: F applied to the value e, which is computed once
With(e, F(_)) == F(e)

LimbBits == 10 + 5
LimbBase == 2^LimbBits

Rest(a) == IF a = <<>> THEN <<>> ELSE Tail(a)
Limb0(a) == IF a = <<>> THEN 0 ELSE a[1]

RECURSIVE BigNorm(_)
BigNorm(a) ==
  IF a # <<>> /\ a[Len(a)] = 0 THEN BigNorm(SubSeq(a, 1, Len(a) - 1)) ELSE a

RECURSIVE BigOf(_)
BigOf(n) == IF n = 0 THEN <<>> ELSE <<n % LimbBase>> \o BigOf(n \div LimbBase)

RECURSIVE BigAddC(_, _, _)
BigAddC(a, b, c) ==
  IF a = <<>> /\ b = <<>> THEN BigOf(c)
  ELSE LET s == Limb0(a) + Limb0(b) + c
       IN  <<s % LimbBase>> \o BigAddC(Rest(a), Rest(b), s \div LimbBase)

BigAdd(a, b) == BigNorm(BigAddC(a, b, 0))

\* a - b for a >= b
RECURSIVE BigSubB(_, _, _)
BigSubB(a, b, br) ==
  IF a = <<>> THEN <<>>
  ELSE LET d == Limb0(a) - Limb0(b) - br
       IN  IF d < 0 THEN <<d + LimbBase>> \o BigSubB(Rest(a), Rest(b), 1)
           ELSE <<d>> \o BigSubB(Rest(a), Rest(b), 0)

BigSub(a, b) == BigNorm(BigSubB(a, b, 0))

\* a * k + c for 0 <= k < LimbBase
RECURSIVE BigMulC(_, _, _)
BigMulC(a, k, c) ==
  IF a = <<>> THEN BigOf(c)
  ELSE LET p == a[1] * k + c
       IN  <<p % LimbBase>> \o BigMulC(Tail(a), k, p \div LimbBase)

BigMulSmall(a, k) == BigNorm(BigMulC(a, k, 0))

RECURSIVE BigMul(_, _)
BigMul(a, b) ==
  IF a = <<>> \/ b = <<>> THEN <<>>
  ELSE BigAdd(BigMulSmall(a, b[1]), <<0>> \o BigMul(a, Tail(b)))

RECURSIVE BigCmpFrom(_, _, _)
BigCmpFrom(a, b, i) ==
  IF i = 0 THEN 0
  ELSE IF a[i] < b[i] THEN -1
  ELSE IF a[i] > b[i] THEN 1
  ELSE BigCmpFrom(a, b, i - 1)

\* -1, 0, 1 as a < b, a = b, a > b (both normalised)
BigCmp(a, b) ==
  IF Len(a) < Len(b) THEN -1
  ELSE IF Len(a) > Len(b) THEN 1
  ELSE BigCmpFrom(a, b, Len(a))

BigLess(a, b) == BigCmp(a, b) < 0
BigLeq(a, b) == BigCmp(a, b) <= 0

\* quotient limbs 1..i of a by k (0 < k <= LimbBase), r the remainder carried
\* down from the limbs above i
RECURSIVE BigDivSmallR(_, _, _, _)
BigDivSmallR(a, k, i, r) ==
  IF i = 0 THEN <<>>
  ELSE LET cur == r * LimbBase + a[i]
       IN  Append(BigDivSmallR(a, k, i - 1, cur % k), cur \div k)

BigDivSmall(a, k) == BigNorm(BigDivSmallR(a, k, Len(a), 0))

DropLimbs(a, n) == IF n >= Len(a) THEN <<>> ELSE SubSeq(a, n + 1, Len(a))

\* a >> n
BigShr(a, n) == BigDivSmall(DropLimbs(a, n \div LimbBits), 2^(n % LimbBits))

\* a mod 2^bits: the value a C unsigned type of that width keeps
BigTrunc(a, bits) ==
  LET full == bits \div LimbBits
      part == bits % LimbBits
  IN  IF Len(a) <= full THEN a
      ELSE BigNorm(SubSeq(a, 1, full) \o <<a[full + 1] % (2^part)>>)

\* the native integer of a Big below 2^30
BigToNat(a) == Limb0(a) + LimbBase * Limb0(Rest(a))

FitsNat(a) == Len(a) <= 2

\* the largest q in lo..hi with d * q <= r, given d * lo <= r
RECURSIVE QuotDigit(_, _, _, _)
QuotDigit(r, d, lo, hi) ==
  IF lo = hi THEN lo
  ELSE LET mid == (lo + hi + 1) \div 2
       IN  IF BigLeq(BigMulSmall(d, mid), r)
           THEN QuotDigit(r, d, mid, hi)
           ELSE QuotDigit(r, d, lo, mid - 1)

\* long division by limbs: <<quotient, remainder>> of the limbs i..Len(a) of
\* a by d, for d > 0
RECURSIVE BigDivQR(_, _, _)
BigDivQR(a, d, i) ==
  IF i > Len(a) THEN << <<>>, <<>> >>
  ELSE LET up == BigDivQR(a, d, i + 1)
           r2 == BigNorm(<<a[i]>> \o up[2])
           qd == QuotDigit(r2, d, 0, LimbBase - 1)
       IN  << <<qd>> \o up[1], BigSub(r2, BigMulSmall(d, qd)) >>

\* a / d for d > 0
BigDiv(a, d) == BigNorm(BigDivQR(a, d, 1)[1])

\* the position of the most significant set bit, 1-based; 0 for 0
RECURSIVE FlsNat(_)
FlsNat(n) == IF n = 0 THEN 0 ELSE 1 + FlsNat(n \div 2)

fls64(a) == IF a = <<>> THEN 0 ELSE (Len(a) - 1) * LimbBits + FlsNat(a[Len(a)])

(***************************************************************************)
(* Program constants.                                                      *)
(***************************************************************************)
BICTCP_BETA_SCALE == 1024
BICTCP_HZ == 10
\* the kernel's tick rate (CONFIG_HZ); bictcp_update reads it as HZ
HZ == 100
USEC_PER_SEC == 1000 * 1000
\* module parameters' defaults
BetaDefault == 717
BicScaleDefault == 41

\* cubicsearch_register: the scale factors computed once, when the module loads
BetaScaleOf(beta) == ((8 * (BICTCP_BETA_SCALE + beta)) \div 3) \div (BICTCP_BETA_SCALE - beta)
CubeRttScaleOf(bic_scale) == bic_scale * 10
\* 2^40 / (bic_scale * 10), a u64
CubeFactorOf(bic_scale) ==
  BigDivSmall(BigMul(BigOf(2^20), BigOf(2^20)), bic_scale * 10)

\* usecs_to_jiffies: microseconds rounded up to whole ticks
usecs_to_jiffies(us) == (us + (USEC_PER_SEC \div HZ) - 1) \div (USEC_PER_SEC \div HZ)

(***************************************************************************)
(* cubic_root: table lookup, then one Newton-Raphson step.  a is a u64     *)
(* (a Big); x, b and shift are u32.  For a < 2^58 no u32 step wraps: the   *)
(* largest intermediate, x * 341, stays below 2^31.                        *)
(***************************************************************************)
CbrtTable ==
  <<   0,  54,  54,  54, 118, 118, 118, 118,
     123, 129, 134, 138, 143, 147, 151, 156,
     157, 161, 164, 168, 170, 173, 176, 179,
     181, 185, 187, 190, 192, 194, 197, 199,
     200, 202, 204, 206, 209, 211, 213, 215,
     217, 219, 221, 222, 224, 225, 227, 229,
     231, 232, 234, 236, 237, 239, 240, 242,
     244, 245, 246, 248, 250, 251, 252, 254 >>

\* v[i] of the C table (0-based)
v(i) == CbrtTable[i + 1]

\* the estimate before the Newton-Raphson step, for fls64(a) >= 7
cubic_root_estimate(a) ==
  With(((fls64(a) * 84) \div 256) - 1,
       LAMBDA b : ((v(BigToNat(BigTrunc(BigShr(a, b * 3), 32))) + 10) * (2^b)) \div 64)

\* a mutant: the Newton-Raphson step left out
cubic_root_NoNewton(a) ==
  IF fls64(a) < 7 THEN (v(BigToNat(a)) + 35) \div 64
  ELSE cubic_root_estimate(a)

cubic_root(a) ==
  IF fls64(a) < 7 THEN (v(BigToNat(a)) + 35) \div 64
  ELSE With(cubic_root_estimate(a),
            LAMBDA x0 :
              ((2 * x0 + BigToNat(BigTrunc(BigDiv(a, BigMul(BigOf(x0), BigOf(x0 - 1))), 32)))
                 * 341) \div 1024)

(***************************************************************************)
(* State.                                                                  *)
(*   cfg   the module parameters (writable at run time, mode 0644)         *)
(*   ca    struct bictcp, the CUBIC fields of the flow                     *)
(*   tp    the transport's socket fields the engine reads and writes       *)
(*   clk   tcp_jiffies32 and tcp_mstamp                                    *)
(*   ev    the last event delivered and what it was given                  *)
(*   heap  the kernel allocator's view of the flow's bin buffer            *)
(*   gh    history: what has happened since the last reset                 *)
(***************************************************************************)
VARIABLES cfg, ca, tp, heap, clk, ev, gh

(***************************************************************************)
(* The CUBIC window model (src/src/tcp_cubic_search.c; the same text is in *)
(* src/dev-in-progress/tcp_cubic.c).                                       *)
(***************************************************************************)
Max(a, b) == IF a >= b THEN a ELSE b
Min(a, b) == IF a <= b THEN a ELSE b

\* 2^64 and 2^32 in limbs
Two64 == <<0, 0, 0, 0, 2^(64 - 4 * LimbBits)>>
Two32 == <<0, 0, 2^(32 - 2 * LimbBits)>>

\* an s32 converted to u64: a negative value sign-extends
S32ToU64(n) == IF n >= 0 THEN BigOf(n) ELSE BigSub(Two64, BigOf(-n))

\* t of bictcp_update: the age of the epoch plus the minimum delay, in
\* units of 2^-BICTCP_HZ seconds (a u64)
CubicT(c, jif) ==
  BigDivSmall(BigTrunc(BigMulSmall(BigTrunc(BigAdd(S32ToU64(jif - c.epoch_start),
                                                   BigOf(usecs_to_jiffies(c.delay_min))),
                                            64),
                                   2^BICTCP_HZ), 64),
              HZ)

\* offs = |t - K| (a u64)
CubicOffs(c, t) ==
  IF BigLess(t, BigOf(c.bic_K)) THEN BigSub(BigOf(c.bic_K), t)
  ELSE BigSub(t, BigOf(c.bic_K))

\* delta = (cube_rtt_scale * offs * offs * offs) >> (10+3*BICTCP_HZ): the
\* product is a u64, delta a u32
CubicDelta(offs) ==
  BigTrunc(BigShr(BigTrunc(BigMul(BigMul(BigMul(BigOf(CubeRttScaleOf(BicScaleDefault)),
                                                offs), offs), offs), 64),
                  10 + 3 * BICTCP_HZ), 32)

\* bictcp_update, the "cubic function - calc" block: t, offs, delta,
\* bic_target and the new cnt, before the first-epoch cap
CubicCnt(c, cwnd, jif) ==
  With(CubicT(c, jif),
       LAMBDA t :
         With(CubicDelta(CubicOffs(c, t)),
              LAMBDA delta :
                With(IF BigLess(t, BigOf(c.bic_K))
                     THEN BigTrunc(BigSub(BigAdd(BigOf(c.bic_origin_point), Two32),
                                          delta), 32)
                     ELSE BigTrunc(BigAdd(BigOf(c.bic_origin_point), delta), 32),
                     LAMBDA bic_target :
                       IF BigLess(BigOf(cwnd), bic_target)
                       THEN BigToNat(BigDiv(BigOf(cwnd),
                                            BigSub(bic_target, BigOf(cwnd))))
                       ELSE 100 * cwnd)))

\* while (ca->ack_cnt > delta) { ca->ack_cnt -= delta; ca->tcp_cwnd++; }
RECURSIVE RenoLoop(_, _)
RenoLoop(c, delta) ==
  IF c.ack_cnt > delta
  THEN RenoLoop([c EXCEPT !.ack_cnt = @ - delta, !.tcp_cwnd = @ + 1], delta)
  ELSE c

\* delta = (cwnd * scale) >> 3, scale being beta_scale as the module computed
\* it when it was loaded
RenoDelta(cwnd) == (cwnd * cfg.beta_scale) \div 8

\* the while loop never ends: delta is 0 and ack_cnt is not
RenoHangs(c, cwnd) == cfg.tcp_friendliness # 0 /\ RenoDelta(cwnd) = 0 /\ c.ack_cnt > 0

\* a mutant: the Reno-shadow window moves but does not cap cnt
TcpFriendliness_NoCap(c, cwnd) ==
  IF cfg.tcp_friendliness = 0 \/ RenoHangs(c, cwnd) THEN c
  ELSE RenoLoop(c, RenoDelta(cwnd))

\* the tcp_friendliness: block (of a call whose loop ends)
TcpFriendliness(c, cwnd) ==
  IF cfg.tcp_friendliness = 0 \/ RenoHangs(c, cwnd) THEN c
  ELSE With(RenoLoop(c, RenoDelta(cwnd)),
            LAMBDA c1 :
              IF c1.tcp_cwnd > cwnd /\ c1.cnt > cwnd \div (c1.tcp_cwnd - cwnd)
              THEN [c1 EXCEPT !.cnt = cwnd \div (c1.tcp_cwnd - cwnd)]
              ELSE c1)

\* a mutant: the last statement of bictcp_update floors at 1
Floor2_At1(c) == [c EXCEPT !.cnt = Max(@, 1)]

\* ca->cnt = max(ca->cnt, 2U)
Floor2(c) == [c EXCEPT !.cnt = Max(@, 2)]

\* a mutant: the first-epoch cap tests the wrong bound
FirstEpochCap_Off(c) == IF c.last_max_cwnd = 0 /\ c.cnt > 200 THEN [c EXCEPT !.cnt = 200] ELSE c

\* if (ca->last_max_cwnd == 0 && ca->cnt > 20) ca->cnt = 20
FirstEpochCap(c) == IF c.last_max_cwnd = 0 /\ c.cnt > 20 THEN [c EXCEPT !.cnt = 20] ELSE c

\* if (ca->epoch_start == 0) { ... }: open an epoch at jif
OpenEpoch(c, cwnd, acked, jif) ==
  IF c.last_max_cwnd <= cwnd
  THEN [c EXCEPT !.epoch_start = jif, !.ack_cnt = acked, !.tcp_cwnd = cwnd,
                 !.bic_K = 0, !.bic_origin_point = cwnd]
  ELSE [c EXCEPT !.epoch_start = jif, !.ack_cnt = acked, !.tcp_cwnd = cwnd,
                 !.bic_K = cubic_root(BigTrunc(BigMul(CubeFactorOf(BicScaleDefault),
                                                      BigOf(c.last_max_cwnd - cwnd)), 64)),
                 !.bic_origin_point = c.last_max_cwnd]

\* a mutant: the rate limit holds within one tick only
UpdatePath_SameTick(c, cwnd, jif) ==
  IF c.last_cwnd = cwnd /\ jif - c.last_time <= 0 THEN "ratelimit"
  ELSE IF c.epoch_start # 0 /\ jif = c.last_time THEN "friendly"
  ELSE "full"

\* which of its three exits a call of bictcp_update takes
UpdatePath(c, cwnd, jif) ==
  IF c.last_cwnd = cwnd /\ jif - c.last_time <= HZ \div 32 THEN "ratelimit"
  ELSE IF c.epoch_start # 0 /\ jif = c.last_time THEN "friendly"
  ELSE "full"

bictcp_update(c, cwnd, acked, jif) ==
  With([c EXCEPT !.ack_cnt = @ + acked],
       LAMBDA c1 :
         With(UpdatePath(c1, cwnd, jif),
              LAMBDA path :
                IF path = "ratelimit" THEN c1
                ELSE IF path = "friendly" THEN Floor2(TcpFriendliness(c1, cwnd))
                ELSE With(IF c1.epoch_start = 0
                          THEN OpenEpoch([c1 EXCEPT !.last_cwnd = cwnd, !.last_time = jif],
                                         cwnd, acked, jif)
                          ELSE [c1 EXCEPT !.last_cwnd = cwnd, !.last_time = jif],
                          LAMBDA c3 :
                            Floor2(TcpFriendliness(
                                     FirstEpochCap([c3 EXCEPT !.cnt = CubicCnt(c3, cwnd, jif)]),
                                     cwnd)))))

\* the call never returns: it reaches tcp_friendliness: with a loop that
\* never ends
UpdateHangs(c, cwnd, acked, jif) ==
  With(UpdatePath([c EXCEPT !.ack_cnt = @ + acked], cwnd, jif),
       LAMBDA path :
         /\ path # "ratelimit"
         /\ RenoHangs([c EXCEPT !.ack_cnt = IF path = "full" /\ c.epoch_start = 0
                                             THEN acked ELSE @ + acked], cwnd))

\* (tp->snd_cwnd * k) / d in 32-bit unsigned arithmetic: the product wraps
MulDivU32(cwnd, k, d) == BigToNat(BigDivSmall(BigTrunc(BigMulSmall(BigOf(cwnd), k), 32), d))

\* return max((tp->snd_cwnd * beta) / BICTCP_BETA_SCALE, 2U)
RecalcRet(cwnd, beta) == Max(MulDivU32(cwnd, beta, BICTCP_BETA_SCALE), 2)

\* a mutant: the recalculation also records the window in loss_cwnd
RecalcFields_LossCwnd(c, cwnd) ==
  [c EXCEPT !.epoch_start = 0,
            !.loss_cwnd = cwnd,
            !.last_max_cwnd =
               IF cwnd < c.last_max_cwnd /\ cfg.fast_convergence # 0
               THEN MulDivU32(cwnd, BICTCP_BETA_SCALE + cfg.beta, 2 * BICTCP_BETA_SCALE)
               ELSE cwnd]

\* the fields bictcp_recalc_ssthresh writes: the epoch ends, Wmax is taken
RecalcFields(c, cwnd) ==
  [c EXCEPT !.epoch_start = 0,
            !.last_max_cwnd =
               IF cwnd < c.last_max_cwnd /\ cfg.fast_convergence # 0
               THEN MulDivU32(cwnd, BICTCP_BETA_SCALE + cfg.beta, 2 * BICTCP_BETA_SCALE)
               ELSE cwnd]

\* a mutant: the epoch is shifted by one jiffy more than the idle time
TxStartShift_OneMore(c, now, delta) ==
  IF c.epoch_start # 0 /\ delta >= 0
  THEN [c EXCEPT !.epoch_start = IF @ + delta + 1 - now > 0 THEN now ELSE @ + delta + 1]
  ELSE c

\* CA_EVENT_TX_START: delta = now - lsndtime
TxStartShift(c, now, delta) ==
  IF c.epoch_start # 0 /\ delta > 0
  THEN LET e == c.epoch_start + delta
       IN  [c EXCEPT !.epoch_start = IF e - now > 0 THEN now ELSE e]
  ELSE c

(***************************************************************************)
(* The transport's helpers the handlers call (tcp_in_slow_start,           *)
(* tcp_slow_start, tcp_cong_avoid_ai of the kernel).                       *)
(***************************************************************************)
\* a mutant: delay_min follows the last sample
DelayMin_Last(delay_min, delay) == delay

\* if (ca->delay_min == 0 || ca->delay_min > delay) ca->delay_min = delay
DelayMin(delay_min, delay) == IF delay_min = 0 \/ delay_min > delay THEN delay ELSE delay_min

tcp_in_slow_start(t) == t.snd_cwnd < t.snd_ssthresh

\* returns the transport fields and the acked count left over
tcp_slow_start(t, acked) ==
  LET cwnd == Min(t.snd_cwnd + acked, t.snd_ssthresh)
  IN  [tp |-> [t EXCEPT !.snd_cwnd = Min(cwnd, t.snd_cwnd_clamp)],
       acked |-> acked - (cwnd - t.snd_cwnd)]

tcp_cong_avoid_ai(t, w, acked) ==
  With([(IF t.snd_cwnd_cnt >= w THEN [t EXCEPT !.snd_cwnd_cnt = 0, !.snd_cwnd = @ + 1]
         ELSE t) EXCEPT !.snd_cwnd_cnt = @ + acked],
       LAMBDA t2 :
         IF t2.snd_cwnd_cnt >= w
         THEN [t2 EXCEPT !.snd_cwnd_cnt = @ - (t2.snd_cwnd_cnt \div w) * w,
                         !.snd_cwnd = Min(@ + (t2.snd_cwnd_cnt \div w), t2.snd_cwnd_clamp)]
         ELSE [t2 EXCEPT !.snd_cwnd = Min(@, t2.snd_cwnd_clamp)])

(***************************************************************************)
(* The engine of src/dev-in-progress/tcp_cubic.c ("cubicv2"): HyStart and  *)
(* the delivery-trend detector with its heap-allocated bins.  The handlers *)
(* work on m = [ca, tp, heap].  The microsecond clock is kept in           *)
(* 0 .. 2^31 - 1, where unsigned and signed readings agree.                *)
(***************************************************************************)
TOTAL_NUM_BINS == 30
LOOK_BACK_WINDOW == 10
SCALE_FACTOR_100 == 100
FOUND_SSTHRESH_SEARCH == 2
FOUND_SNDCLAMP_SEARCH == 3
HYSTART_ACK_TRAIN == 1
HYSTART_DELAY == 2
HYSTART_MIN_SAMPLES == 8
HYSTART_DELAY_MIN == 4000
HYSTART_DELAY_MAX == 16000
hystart_low_window == 16
hystart_ack_delta_us == 2000
max_rtt_factor == 350
search_exit_thresh == 25
TCP_INFINITE_SSTHRESH == 2147483647
MinRttUnknown == -1
CurrRttMax == -1
USEC_PER_MSEC == 1000
GSO_MAX_SIZE == 65536
MssCache == 1460

NullPtr == 0
BinsAddr == 1

ZeroBins == [i \in 0 .. TOTAL_NUM_BINS - 1 |-> 0]

\* integer division of C: the quotient is truncated toward zero
CDiv(a, b) == IF a >= 0 THEN a \div b ELSE -((-a) \div b)

\* memset(ca, 0, offsetof(struct bictcp, unused)); ca->found = 0
dev_bictcp_reset(c) ==
  [c EXCEPT !.cnt = 0, !.last_max_cwnd = 0, !.loss_cwnd = 0, !.last_cwnd = 0,
            !.last_time = 0, !.bic_origin_point = 0, !.bic_K = 0, !.delay_min = 0,
            !.epoch_start = 0, !.ack_cnt = 0, !.tcp_cwnd = 0, !.found = 0]

dev_bictcp_hystart_reset(c, t, now) ==
  [c EXCEPT !.round_start = now, !.last_ack = now, !.end_seq = t.snd_nxt,
            !.curr_rtt = CurrRttMax, !.sample_cnt = 0]

\* if (!ca->bins) ca->bins = kcalloc(...): ok says whether the allocator
\* has memory to give
kcalloc_bins(m, ok) ==
  IF m.ca.bins # NullPtr THEN m
  ELSE IF ok THEN [m EXCEPT !.ca.bins = BinsAddr,
                            !.heap = [@ EXCEPT !.live = @ + 1, !.allocs = @ + 1,
                                               !.buf = ZeroBins]]
  ELSE m

dev_bictcp_search_reset(m, now, ok) ==
  With(IF m.tp.min_rtt = MinRttUnknown THEN 0
       ELSE ((m.tp.min_rtt * max_rtt_factor) \div SCALE_FACTOR_100) \div LOOK_BACK_WINDOW,
       LAMBDA dur :
         With(kcalloc_bins([m EXCEPT !.ca.bytes_acked_prev = m.tp.bytes_acked,
                                     !.ca.epoch_dur_us = dur,
                                     !.ca.epoch_expires_us = now + dur,
                                     !.ca.index = 0],
                           ok),
              LAMBDA m2 :
                IF m2.ca.bins # NullPtr THEN [m2 EXCEPT !.heap.buf = ZeroBins] ELSE m2))

\* the state after a handler has dereferenced the NULL bins pointer: the
\* kernel faults in the middle of the handler
Oops(m) == [m EXCEPT !.heap.oops = "null"]

\* the processor stays in a loop of the engine: the flow is served no more
Hang(m) == [m EXCEPT !.heap.oops = "hang"]

\* the state after a handler has divided by zero and the processor trapped
DivideError(m) == [m EXCEPT !.heap.oops = "divide"]

hystart_ack_delay(t) ==
  IF t.pacing_rate = 0 THEN 0
  ELSE With(BigDiv(BigMul(BigOf(GSO_MAX_SIZE * 4), BigOf(USEC_PER_SEC)), BigOf(t.pacing_rate)),
            LAMBDA q : IF FitsNat(q) THEN Min(USEC_PER_MSEC, BigToNat(q)) ELSE USEC_PER_MSEC)

\* a mutant: the eighth of the minimum delay, without the clamp
HYSTART_DELAY_THRESH_NoClamp(x) == x

HYSTART_DELAY_THRESH(x) == Min(Max(x, HYSTART_DELAY_MIN), HYSTART_DELAY_MAX)

\* curr_rtt holds ~0U until the round has a sample
CurrRttAbove(curr, x) == curr = CurrRttMax \/ curr > x

dev_hystart_update(m, delay, now) ==
  With(IF m.tp.bytes_acked - m.ca.end_seq > 0
       THEN [m EXCEPT !.ca = dev_bictcp_hystart_reset(m.ca, m.tp, now)] ELSE m,
       LAMBDA m0 :
         With(IF (cfg.hystart_detect \div HYSTART_ACK_TRAIN) % 2 = 1
                 /\ now - m0.ca.last_ack <= hystart_ack_delta_us
              THEN With(m0.ca.delay_min + hystart_ack_delay(m0.tp),
                        LAMBDA thr0 :
                          IF now - m0.ca.round_start
                               > (IF m0.tp.pacing_none THEN thr0 \div 2 ELSE thr0)
                          THEN [m0 EXCEPT !.ca.last_ack = now, !.ca.found = 1,
                                          !.tp.snd_ssthresh = m0.tp.snd_cwnd]
                          ELSE [m0 EXCEPT !.ca.last_ack = now])
              ELSE m0,
              LAMBDA m1 :
                IF (cfg.hystart_detect \div HYSTART_DELAY) % 2 = 1
                THEN With(IF CurrRttAbove(m1.ca.curr_rtt, delay)
                          THEN [m1 EXCEPT !.ca.curr_rtt = delay] ELSE m1,
                          LAMBDA mb :
                            IF mb.ca.sample_cnt < HYSTART_MIN_SAMPLES
                            THEN [mb EXCEPT !.ca.sample_cnt = @ + 1]
                            ELSE IF CurrRttAbove(mb.ca.curr_rtt,
                                                 mb.ca.delay_min
                                                   + HYSTART_DELAY_THRESH(mb.ca.delay_min \div 8))
                                 THEN [mb EXCEPT !.ca.found = 1,
                                                 !.tp.snd_ssthresh = mb.tp.snd_cwnd]
                            ELSE mb)
                ELSE m1))

RECURSIVE get_window_sum(_, _, _, _)
get_window_sum(array, start, end, len) ==
  IF start > end THEN 0
  ELSE array[start % len] + get_window_sum(array, start + 1, end, len)

\* returns <<rc, factor to store>>; reads the bins only past the early returns
search_exit_slowstart(m, delay) ==
  IF m.tp.rate_app_limited \/ m.ca.epoch_dur_us = 0 THEN [rc |-> FALSE, m |-> m]
  ELSE With(m.ca.index - 1,
            LAMBDA index :
              With(index - (delay \div m.ca.epoch_dur_us),
                   LAMBDA index_prev :
                     IF index_prev < TOTAL_NUM_BINS - 1 THEN [rc |-> FALSE, m |-> m]
                     ELSE IF index - (index_prev - LOOK_BACK_WINDOW + 1) + 1 < TOTAL_NUM_BINS
                          THEN [rc |-> FALSE, m |-> m]
                     ELSE IF m.ca.bins = NullPtr THEN [rc |-> FALSE, m |-> Oops(m)]
                     ELSE With(get_window_sum(m.heap.buf, index_prev - LOOK_BACK_WINDOW + 1,
                                              index_prev, TOTAL_NUM_BINS),
                               LAMBDA total_pre :
                                 IF total_pre = 0 THEN [rc |-> FALSE, m |-> m]
                                 ELSE With(CDiv((2 * total_pre
                                                   - get_window_sum(m.heap.buf,
                                                                    index - LOOK_BACK_WINDOW + 1,
                                                                    index, TOTAL_NUM_BINS))
                                                  * SCALE_FACTOR_100,
                                                2 * total_pre),
                                           LAMBDA factor :
                                             [rc |-> IF cfg.search_double_cross_exit # 0
                                                     THEN /\ m.ca.factor >= search_exit_thresh
                                                          /\ factor >= search_exit_thresh
                                                     ELSE factor >= search_exit_thresh,
                                              m |-> [m EXCEPT !.ca.factor = factor]]))))

\* the long-idle loop: while (last_epoch_expires + epoch_dur_us < now)
MissedEpochs(c, now) ==
  IF now > c.epoch_expires_us
  THEN (now - c.epoch_expires_us + c.epoch_dur_us - 1) \div c.epoch_dur_us
  ELSE 0

\* the bins after the loop has run n times from index
ClearMissed(buf, index, n) ==
  [i \in 0 .. TOTAL_NUM_BINS - 1 |->
     IF \E k \in 1 .. Min(n, TOTAL_NUM_BINS) : (index + k) % TOTAL_NUM_BINS = i
     THEN 0 ELSE buf[i]]

\* ca->bins[index % TOTAL_NUM_BINS] += tp->bytes_acked - ca->bytes_acked_prev
AddBytes(m) ==
  IF m.ca.bins = NullPtr THEN Oops(m)
  ELSE [m EXCEPT !.heap.buf[m.ca.index % TOTAL_NUM_BINS] =
                    @ + (m.tp.bytes_acked - m.ca.bytes_acked_prev),
                 !.ca.bytes_acked_prev = m.tp.bytes_acked]

\* the body of if (search_exit_slowstart(sk, rtt_us)) { ... goto out; }
\* a mutant: the exit takes the window as it is, without the floor of 10
SearchExit_NoFloor(m) ==
  IF cfg.search_enable_mode = 2
  THEN [m EXCEPT !.tp.snd_ssthresh = m.tp.snd_cwnd,
                 !.tp.snd_cwnd_clamp = Max(m.tp.snd_cwnd + (m.tp.snd_cwnd \div 8),
                                           (64 * 1024) \div MssCache),
                 !.ca.found = FOUND_SNDCLAMP_SEARCH]
  ELSE [m EXCEPT !.tp.snd_ssthresh = m.tp.snd_cwnd,
                 !.ca.found = FOUND_SSTHRESH_SEARCH]

SearchExit(m) ==
  IF cfg.search_enable_mode = 2
  THEN [m EXCEPT !.tp.snd_ssthresh = Max(m.tp.snd_cwnd, 10),
                 !.tp.snd_cwnd_clamp = Max(m.tp.snd_cwnd + (m.tp.snd_cwnd \div 8),
                                           (64 * 1024) \div MssCache),
                 !.ca.found = FOUND_SNDCLAMP_SEARCH]
  ELSE [m EXCEPT !.tp.snd_ssthresh = Max(m.tp.snd_cwnd, 10),
                 !.ca.found = FOUND_SSTHRESH_SEARCH]

\* the body of if (now >= ca->epoch_expires_us) { ... }
EpochExpired(m, now, rtt_us) ==
  With(MissedEpochs(m.ca, now),
       LAMBDA n :
         With(IF n = 0 THEN m
              ELSE IF m.ca.bins = NullPtr THEN Oops([m EXCEPT !.ca.index = @ + 1])
              ELSE [m EXCEPT !.ca.index = @ + n,
                             !.heap.buf = ClearMissed(@, m.ca.index, n)],
              LAMBDA m1 :
                IF m1.heap.oops # "none" THEN m1
                ELSE With(search_exit_slowstart(m1, rtt_us),
                          LAMBDA x :
                            IF x.m.heap.oops # "none" THEN x.m
                            ELSE IF x.rc THEN SearchExit(x.m)
                            ELSE AddBytes([x.m EXCEPT !.ca.epoch_expires_us =
                                                         m.ca.epoch_expires_us
                                                           + n * m.ca.epoch_dur_us]))))

\* a mutant: a detector that has declared the exit keeps working
hystart_search_update_NoStop(m, rtt_us, now, ok) ==
  With(IF m.ca.epoch_expires_us = 0 \/ m.ca.epoch_dur_us = 0
       THEN dev_bictcp_search_reset(m, now, ok) ELSE m,
       LAMBDA m1 :
         With([m1 EXCEPT !.ca.epoch_dur_us = IF @ = 0 THEN 1 ELSE @],
              LAMBDA m2 :
                IF now >= m2.ca.epoch_expires_us THEN EpochExpired(m2, now, rtt_us)
                ELSE AddBytes(m2)))

hystart_search_update(m, rtt_us, now, ok) ==
  IF m.ca.found # 0 THEN m
  ELSE With(IF m.ca.epoch_expires_us = 0 \/ m.ca.epoch_dur_us = 0
            THEN dev_bictcp_search_reset(m, now, ok) ELSE m,
            LAMBDA m1 :
              With([m1 EXCEPT !.ca.epoch_dur_us = IF @ = 0 THEN 1 ELSE @],
                   LAMBDA m2 :
                     IF now >= m2.ca.epoch_expires_us THEN EpochExpired(m2, now, rtt_us)
                     ELSE AddBytes(m2)))

\* a mutant: the sample is used whatever its sign
InvalidSample_Never(rtt_us) == FALSE

\* if (sample->rtt_us < 0) return
InvalidSample(rtt_us) == rtt_us < 0

\* how far a call of cubictcp_acked gets
AckPath(m, rtt_us, jif) ==
  IF InvalidSample(rtt_us) THEN "invalid"
  ELSE IF m.ca.epoch_start # 0 /\ jif - m.ca.epoch_start < HZ THEN "discarded"
  ELSE IF cfg.search_enable_mode # 0 /\ tcp_in_slow_start(m.tp) /\ m.ca.found # 0 THEN "stopped"
  ELSE "sample"

\* a mutant: HyStart is consulted at any window
cubictcp_acked_AnyWindow(m, rtt_us, jif, now, ok) ==
  IF InvalidSample(rtt_us) THEN m
  ELSE IF m.ca.epoch_start # 0 /\ jif - m.ca.epoch_start < HZ THEN m
  ELSE With(IF rtt_us = 0 THEN 1 ELSE rtt_us,
            LAMBDA delay :
              With([m EXCEPT !.ca.delay_min = DelayMin(@, delay)],
                   LAMBDA m1 :
                     With(IF m1.ca.found = 0 /\ tcp_in_slow_start(m1.tp) /\ cfg.hystart # 0
                          THEN dev_hystart_update(m1, delay, now) ELSE m1,
                          LAMBDA m2 :
                            IF cfg.search_enable_mode # 0 /\ tcp_in_slow_start(m2.tp)
                            THEN hystart_search_update(m2, rtt_us, now, ok) ELSE m2)))

cubictcp_acked(m, rtt_us, jif, now, ok) ==
  IF InvalidSample(rtt_us) THEN m
  ELSE IF m.ca.epoch_start # 0 /\ jif - m.ca.epoch_start < HZ THEN m
  ELSE With(IF rtt_us = 0 THEN 1 ELSE rtt_us,
            LAMBDA delay :
              With([m EXCEPT !.ca.delay_min = DelayMin(@, delay)],
                   LAMBDA m1 :
                     With(IF m1.ca.found = 0 /\ tcp_in_slow_start(m1.tp) /\ cfg.hystart # 0
                             /\ m1.tp.snd_cwnd >= hystart_low_window
                          THEN dev_hystart_update(m1, delay, now) ELSE m1,
                          LAMBDA m2 :
                            IF cfg.search_enable_mode # 0 /\ tcp_in_slow_start(m2.tp)
                            THEN hystart_search_update(m2, rtt_us, now, ok) ELSE m2)))

\* a mutant: the pointer is freed without looking at it
bictcp_release_Unchecked(m) ==
  [m EXCEPT !.heap = [@ EXCEPT !.frees = @ + 1, !.live = @ - 1], !.ca.bins = NullPtr]

\* if (ca->bins) kfree(ca->bins); ca->bins = NULL
bictcp_release(m) ==
  IF m.ca.bins # NullPtr
  THEN [m EXCEPT !.heap = [@ EXCEPT !.frees = @ + 1, !.live = @ - 1], !.ca.bins = NullPtr]
  ELSE m

cubictcp_init(m, now, ok) ==
  With([dev_bictcp_reset(m.ca) EXCEPT !.loss_cwnd = 0, !.start_tm_us = now],
       LAMBDA c1 :
         With([m EXCEPT !.ca = IF cfg.hystart # 0 THEN dev_bictcp_hystart_reset(c1, m.tp, now)
                               ELSE c1,
                        !.tp = IF cfg.hystart = 0 /\ cfg.initial_ssthresh # 0
                               THEN [m.tp EXCEPT !.snd_ssthresh = cfg.initial_ssthresh]
                               ELSE m.tp],
              LAMBDA m2 :
                IF cfg.search_enable_mode # 0 THEN dev_bictcp_search_reset(m2, now, ok)
                ELSE m2))

cubictcp_state(m, new_state, now) ==
  IF new_state = "Loss"
  THEN [m EXCEPT !.ca = dev_bictcp_hystart_reset(dev_bictcp_reset(m.ca), m.tp, now)]
  ELSE m

cubictcp_cwnd_event(m, event, now, lsndtime) ==
  IF event = "TX_START" THEN [m EXCEPT !.ca = TxStartShift(m.ca, now, now - lsndtime)] ELSE m

cubictcp_recalc_ssthresh(m) ==
  [m |-> [m EXCEPT !.ca = RecalcFields(m.ca, m.tp.snd_cwnd)],
   ret |-> RecalcRet(m.tp.snd_cwnd, cfg.beta)]

cubictcp_cong_avoid(m, acked, limited, jif) ==
  IF ~limited THEN m
  ELSE With(IF tcp_in_slow_start(m.tp) THEN tcp_slow_start(m.tp, acked)
            ELSE [tp |-> m.tp, acked |-> acked],
            LAMBDA ss :
              IF tcp_in_slow_start(m.tp) /\ ss.acked = 0 THEN [m EXCEPT !.tp = ss.tp]
              ELSE IF UpdateHangs(m.ca, ss.tp.snd_cwnd, ss.acked, jif)
              THEN Hang([m EXCEPT !.tp = ss.tp])
              ELSE With(bictcp_update(m.ca, ss.tp.snd_cwnd, ss.acked, jif),
                        LAMBDA c1 :
                          [m EXCEPT !.ca = c1,
                                    !.tp = tcp_cong_avoid_ai(ss.tp, c1.cnt, ss.acked)]))

(***************************************************************************)
(* The engine of src/src/tcp_cubic_search.c ("cubic_search"): HyStart and  *)
(* SEARCH share one union of 64 bytes after the CUBIC fields.  The union   *)
(* is held as its storage, in the layout of a little-endian build:         *)
(*   w0    bytes 0-3    search.bin_duration_us | hystart.unused,           *)
(*                                               sample_cnt, found         *)
(*   w1    bytes 4-7    search.curr_idx        | hystart.round_start       *)
(*   w2    bytes 8-11   search.bin_end_us      | hystart.end_seq           *)
(*   bin   bytes 12-61  search.bin[0..24]      | hystart.last_ack in       *)
(*                                               bin[0..1], curr_rtt in    *)
(*                                               bin[2..3]                 *)
(*   unused, scale_factor   bytes 62, 63                                   *)
(* A 32-bit word is held by its s32 reading, a bin by its u16 value.       *)
(***************************************************************************)
MAX_US_INT == 65535
SEARCH_BINS == 10
SEARCH_EXTRA_BINS == 15
SEARCH_TOTAL_BINS == 25
SS_EXIT_POINT_NONE == 0
SS_EXIT_POINT_SEARCH == 1
SS_EXIT_POINT_HYSTART == 2
TCP_INIT_CWND == 10
\* module parameters' defaults
SearchWindowSizeTimeDefault == 35
SearchThreshDefault == 35

Half == 65536

Lo16(x) == x % Half
Hi16(x) == ((x - Lo16(x)) \div Half) % Half

\* the s32 reading of the word whose halves are lo and hi
WordOf(lo, hi) == IF hi >= Half \div 2 THEN (hi - Half) * Half + lo ELSE hi * Half + lo

\* u32 arithmetic on s32 readings; the short way where nothing can wrap
Small(x) == -(2^30) < x /\ x < 2^30
Two31 == <<0, 0, 2^(31 - 2 * LimbBits)>>
U32Big(x) == IF x >= 0 THEN BigOf(x) ELSE BigSub(Two32, BigOf(-x))
BigToInt(a) ==
  Limb0(a) + LimbBase * Limb0(Rest(a)) + LimbBase * LimbBase * Limb0(Rest(Rest(a)))
S32OfBig(a) ==
  With(BigTrunc(a, 32),
       LAMBDA t : IF BigLess(t, Two31) THEN BigToInt(t) ELSE -BigToInt(BigSub(Two32, t)))
U32Add(a, b) ==
  IF Small(a) /\ Small(b) THEN a + b ELSE S32OfBig(BigAdd(U32Big(a), U32Big(b)))
U32Sub(a, b) ==
  IF Small(a) /\ Small(b) THEN a - b
  ELSE S32OfBig(BigSub(BigAdd(U32Big(a), Two32), U32Big(b)))
U32Mul(a, b) ==
  IF a >= 0 /\ b >= 0 /\ a < LimbBase /\ b < LimbBase THEN a * b
  ELSE S32OfBig(BigMul(U32Big(a), U32Big(b)))
U32Div(a, b) ==
  IF a >= 0 /\ b > 0 THEN a \div b ELSE S32OfBig(BigDiv(U32Big(a), U32Big(b)))
U32Mod(a, b) ==
  IF a >= 0 /\ b > 0 THEN a % b
  ELSE S32OfBig(BigSub(U32Big(a), BigMul(BigDiv(U32Big(a), U32Big(b)), U32Big(b))))
U32Less(a, b) == IF (a >= 0) = (b >= 0) THEN a < b ELSE b < 0

\* the remainder of C: it has the sign of the dividend
CMod(a, n) == a - n * CDiv(a, n)

ZeroUnion ==
  [w0 |-> 0, w1 |-> 0, w2 |-> 0, bin |-> [i \in 0 .. SEARCH_TOTAL_BINS - 1 |-> 0],
   unused |-> 0, scale_factor |-> 0]

\* the hystart member of the union, read out of the storage
HsGet(u) ==
  [unused      |-> Lo16(u.w0),
   sample_cnt  |-> Hi16(u.w0) % 256,
   found       |-> Hi16(u.w0) \div 256,
   round_start |-> u.w1,
   end_seq     |-> u.w2,
   last_ack    |-> WordOf(u.bin[0], u.bin[1]),
   curr_rtt    |-> WordOf(u.bin[2], u.bin[3])]

\* the storage after the hystart member has been written
HsPut(u, h) ==
  [u EXCEPT !.w0 = WordOf(h.unused, h.sample_cnt + 256 * h.found),
            !.w1 = h.round_start,
            !.w2 = h.end_seq,
            !.bin = [i \in 0 .. SEARCH_TOTAL_BINS - 1 |->
                       IF i = 0 THEN Lo16(h.last_ack)
                       ELSE IF i = 1 THEN Hi16(h.last_ack)
                       ELSE IF i = 2 THEN Lo16(h.curr_rtt)
                       ELSE IF i = 3 THEN Hi16(h.curr_rtt)
                       ELSE u.bin[i]]]

\* the 32-bit words of struct bictcp that lie before search.bin
WordsBeforeBins(c) ==
  <<c.cnt, c.last_max_cwnd, c.last_cwnd, c.last_time, c.bic_origin_point, c.bic_K,
    c.delay_min, c.epoch_start, c.ack_cnt, c.tcp_cwnd, c.un.w0, c.un.w1, c.un.w2>>

\* ca->search.bin[k] as the build reads it: the array for 0 <= k < 25, the
\* bytes of the struct around it for -26 <= k < 0 and k = 25, and whatever
\* lies behind the struct (oob) for every other k
BinRead(c, k, oob) ==
  IF 0 <= k /\ k < SEARCH_TOTAL_BINS THEN c.un.bin[k]
  ELSE IF k = SEARCH_TOTAL_BINS THEN c.un.unused + 256 * c.un.scale_factor
  ELSE IF -26 <= k /\ k < 0
       THEN With(WordsBeforeBins(c)[((26 + k) \div 2) + 1],
                 LAMBDA w : IF (26 + k) % 2 = 0 THEN Lo16(w) ELSE Hi16(w))
  ELSE oob

\* ca->search.bin[k] = val for -26 <= k < 25
BinWrite(c, k, val) ==
  IF k >= 0 THEN [c EXCEPT !.un.bin[k] = val]
  ELSE With(((26 + k) \div 2) + 1,
            LAMBDA n :
              With(With(WordsBeforeBins(c)[n],
                        LAMBDA w : IF (26 + k) % 2 = 0 THEN WordOf(val, Hi16(w))
                                   ELSE WordOf(Lo16(w), val)),
                   LAMBDA x :
                     IF n = 1 THEN [c EXCEPT !.cnt = x]
                     ELSE IF n = 2 THEN [c EXCEPT !.last_max_cwnd = x]
                     ELSE IF n = 3 THEN [c EXCEPT !.last_cwnd = x]
                     ELSE IF n = 4 THEN [c EXCEPT !.last_time = x]
                     ELSE IF n = 5 THEN [c EXCEPT !.bic_origin_point = x]
                     ELSE IF n = 6 THEN [c EXCEPT !.bic_K = x]
                     ELSE IF n = 7 THEN [c EXCEPT !.delay_min = x]
                     ELSE IF n = 8 THEN [c EXCEPT !.epoch_start = x]
                     ELSE IF n = 9 THEN [c EXCEPT !.ack_cnt = x]
                     ELSE IF n = 10 THEN [c EXCEPT !.tcp_cwnd = x]
                     ELSE IF n = 11 THEN [c EXCEPT !.un.w0 = x]
                     ELSE IF n = 12 THEN [c EXCEPT !.un.w1 = x]
                     ELSE [c EXCEPT !.un.w2 = x]))

bictcp_reset(c) ==
  [c EXCEPT !.cnt = 0, !.last_max_cwnd = 0, !.last_cwnd = 0, !.last_time = 0,
            !.bic_origin_point = 0, !.bic_K = 0, !.delay_min = 0, !.epoch_start = 0,
            !.ack_cnt = 0, !.tcp_cwnd = 0,
            !.un = HsPut(@, [HsGet(@) EXCEPT !.found = 0])]

bictcp_search_reset(c) ==
  [c EXCEPT !.un = [@ EXCEPT !.bin = ZeroUnion.bin, !.w0 = 0, !.w1 = -1, !.w2 = 0,
                             !.scale_factor = 0]]

bictcp_hystart_reset(c, t, now) ==
  [c EXCEPT !.un = HsPut(@, [HsGet(@) EXCEPT !.round_start = now, !.last_ack = now,
                                             !.end_seq = t.snd_nxt,
                                             !.curr_rtt = CurrRttMax,
                                             !.sample_cnt = 0])]

bictcp_init(m, now) ==
  [m EXCEPT !.ca = IF cfg.slow_start_mode = SS_EXIT_POINT_SEARCH
                   THEN bictcp_search_reset(bictcp_reset(m.ca))
                   ELSE IF cfg.slow_start_mode = SS_EXIT_POINT_HYSTART
                        THEN bictcp_hystart_reset(bictcp_reset(m.ca), m.tp, now)
                   ELSE bictcp_reset(m.ca),
            !.tp = IF cfg.slow_start_mode # SS_EXIT_POINT_HYSTART
                      /\ cfg.initial_ssthresh # 0
                   THEN [@ EXCEPT !.snd_ssthresh = cfg.initial_ssthresh] ELSE @]

bictcp_cwnd_event(m, event, now, lsndtime) ==
  IF event = "TX_START" THEN [m EXCEPT !.ca = TxStartShift(m.ca, now, now - lsndtime)]
  ELSE IF event = "CWND_RESTART" /\ cfg.slow_start_mode = SS_EXIT_POINT_SEARCH
       THEN [m EXCEPT !.ca = bictcp_search_reset(m.ca)]
  ELSE m

\* ack is the sequence number the ACK acknowledges
bictcp_cong_avoid(m, ack, acked, limited, jif, now) ==
  IF ~limited THEN m
  ELSE With(IF tcp_in_slow_start(m.tp) /\ cfg.slow_start_mode = SS_EXIT_POINT_HYSTART
               /\ ack - HsGet(m.ca.un).end_seq > 0
            THEN [m EXCEPT !.ca = bictcp_hystart_reset(m.ca, m.tp, now)] ELSE m,
            LAMBDA m0 :
              With(IF tcp_in_slow_start(m0.tp) THEN tcp_slow_start(m0.tp, acked)
                   ELSE [tp |-> m0.tp, acked |-> acked],
                   LAMBDA ss :
                     IF tcp_in_slow_start(m0.tp) /\ ss.acked = 0 THEN [m0 EXCEPT !.tp = ss.tp]
                     ELSE IF UpdateHangs(m0.ca, ss.tp.snd_cwnd, ss.acked, jif)
                     THEN Hang([m0 EXCEPT !.tp = ss.tp])
                     ELSE With(bictcp_update(m0.ca, ss.tp.snd_cwnd, ss.acked, jif),
                               LAMBDA c1 :
                                 [m0 EXCEPT !.ca = c1,
                                            !.tp = tcp_cong_avoid_ai(ss.tp, c1.cnt,
                                                                     ss.acked)])))

bictcp_state(m, new_state, now) ==
  IF new_state = "Loss"
  THEN [m EXCEPT !.ca = bictcp_hystart_reset(bictcp_search_reset(bictcp_reset(m.ca)),
                                             m.tp, now)]
  ELSE m

hystart_update(m, delay, now) ==
  With(HsGet(m.ca.un),
       LAMBDA h0 :
         With((cfg.hystart_detect \div HYSTART_ACK_TRAIN) % 2 = 1
                /\ U32Sub(now, h0.last_ack) <= hystart_ack_delta_us,
              LAMBDA train :
                With(train
                       /\ With(U32Add(m.ca.delay_min, hystart_ack_delay(m.tp)),
                               LAMBDA thr0 :
                                 U32Less(IF m.tp.pacing_none THEN U32Div(thr0, 2) ELSE thr0,
                                         U32Sub(now, h0.round_start))),
                     LAMBDA hit1 :
                       With(IF train
                            THEN [h0 EXCEPT !.last_ack = now,
                                            !.found = IF hit1 THEN 1 ELSE @]
                            ELSE h0,
                            LAMBDA h1 :
                              IF (cfg.hystart_detect \div HYSTART_DELAY) % 2 # 1
                              THEN [m EXCEPT !.ca.un = HsPut(@, h1),
                                             !.tp.snd_ssthresh =
                                                IF hit1 THEN m.tp.snd_cwnd ELSE @]
                              ELSE With(IF U32Less(delay, h1.curr_rtt)
                                        THEN [h1 EXCEPT !.curr_rtt = delay] ELSE h1,
                                        LAMBDA h2 :
                                          IF h2.sample_cnt < HYSTART_MIN_SAMPLES
                                          THEN [m EXCEPT
                                                  !.ca.un = HsPut(@, [h2 EXCEPT
                                                                        !.sample_cnt = @ + 1]),
                                                  !.tp.snd_ssthresh =
                                                     IF hit1 THEN m.tp.snd_cwnd ELSE @]
                                          ELSE IF U32Less(U32Add(m.ca.delay_min,
                                                                 HYSTART_DELAY_THRESH(
                                                                   U32Div(m.ca.delay_min, 8))),
                                                          h2.curr_rtt)
                                               THEN [m EXCEPT
                                                       !.ca.un = HsPut(@, [h2 EXCEPT
                                                                             !.found = 1]),
                                                       !.tp.snd_ssthresh = m.tp.snd_cwnd]
                                          ELSE [m EXCEPT
                                                  !.ca.un = HsPut(@, h2),
                                                  !.tp.snd_ssthresh =
                                                     IF hit1 THEN m.tp.snd_cwnd ELSE @])))))

\* while (bin_value > MAX_US_INT) { shift_amount += 1; bin_value >>= 1; }
RECURSIVE ShiftAmount(_)
ShiftAmount(bin_value) ==
  IF bin_value > MAX_US_INT THEN 1 + ShiftAmount(bin_value \div 2) ELSE 0

\* a mutant: the scale factor grows but the bins stored so far stay as they are
StoreBin_NoRescale(m, passed_bins) ==
  With(IF m.ca.un.scale_factor > 30 THEN 0
       ELSE m.tp.bytes_acked \div (2^m.ca.un.scale_factor),
       LAMBDA bin_value :
         With(ShiftAmount(bin_value),
              LAMBDA shift_amount :
                [m EXCEPT !.ca =
                   BinWrite([m.ca EXCEPT !.un =
                               [@ EXCEPT !.w2 = U32Add(@, U32Mul(passed_bins, m.ca.un.w0)),
                                         !.w1 = U32Add(@, passed_bins),
                                         !.scale_factor = (@ + shift_amount) % 256]],
                            CMod(U32Add(m.ca.un.w1, passed_bins), SEARCH_TOTAL_BINS),
                            (bin_value \div (2^shift_amount)) % Half)]))

\* search_update_bins from "ca->search.bin_end_us += ..." to its end
StoreBin(m, passed_bins) ==
  With(IF m.ca.un.scale_factor > 30 THEN 0
       ELSE m.tp.bytes_acked \div (2^m.ca.un.scale_factor),
       LAMBDA bin_value :
         With(ShiftAmount(bin_value),
              LAMBDA shift_amount :
                [m EXCEPT !.ca =
                   BinWrite([m.ca EXCEPT !.un =
                               [@ EXCEPT !.w2 = U32Add(@, U32Mul(passed_bins, m.ca.un.w0)),
                                         !.w1 = U32Add(@, passed_bins),
                                         !.bin = [i \in 0 .. SEARCH_TOTAL_BINS - 1 |->
                                                    m.ca.un.bin[i] \div (2^shift_amount)],
                                         !.scale_factor = (@ + shift_amount) % 256]],
                            CMod(U32Add(m.ca.un.w1, passed_bins), SEARCH_TOTAL_BINS),
                            (bin_value \div (2^shift_amount)) % Half)]))

\* the for loop that copies the latest bin into the bins that were missed;
\* passed_bins is below 3 here, so it runs once at most
FillMissed(m, passed_bins, env) ==
  With(U32Add(m.ca.un.w1, 1),
       LAMBDA i :
         IF U32Less(i, U32Add(m.ca.un.w1, passed_bins))
         THEN [m EXCEPT !.ca.un.bin[U32Mod(i, SEARCH_TOTAL_BINS)] =
                           IF m.ca.un.w1 >= 0 THEN BinRead(m.ca, m.ca.un.w1, env.oob) ELSE 0]
         ELSE m)

\* line 570 of the source, a bare "break" between the if and its else, does
\* not compile; the two readings of it are that the function returns after
\* the reset (env.ret) and that it goes on to store the bin
search_update_bins(m, now, env) ==
  With(U32Add(U32Div(U32Sub(now, m.ca.un.w2), m.ca.un.w0), 1),
       LAMBDA passed_bins :
         IF ~U32Less(passed_bins, 3)
         THEN IF env.ret THEN [m EXCEPT !.ca = bictcp_search_reset(m.ca)]
              ELSE StoreBin([m EXCEPT !.ca = bictcp_search_reset(m.ca)], passed_bins)
         ELSE StoreBin(FillMissed(m, passed_bins, env), passed_bins))

\* a u64
search_compute_delivered_window(c, index1, index2, fraction, oob) ==
  LET B(k) == BinRead(c, CMod(k, SEARCH_TOTAL_BINS), oob)
  IN  BigTrunc(BigAdd(BigAdd(S32ToU64(B(index2 - 1) - B(index1)),
                             U32Big(IF index1 = 0
                                    THEN U32Div(U32Mul(B(index1), fraction), 100)
                                    ELSE U32Div(U32Mul(B(index1) - B(index1 - 1), fraction),
                                                100))),
                      U32Big(U32Div(U32Mul(B(index2) - B(index2 - 1), U32Sub(100, fraction)),
                                    100))),
               64)

search_exit_slow_start(m, env) ==
  With(IF cfg.cwnd_rollback # 1 THEN m.tp.snd_cwnd
       ELSE With(S32OfBig(BigDivSmall(
                   search_compute_delivered_window(
                     m.ca,
                     U32Sub(m.ca.un.w1,
                            U32Div(U32Mul(2, U32Div(U32Mul(U32Mul(m.ca.un.w0, SEARCH_BINS), 10),
                                                    cfg.search_window_size_time)),
                                   m.ca.un.w0)),
                     m.ca.un.w1, 0, env.oob),
                   MssCache)),
                 LAMBDA overshoot_cwnd :
                   IF U32Less(overshoot_cwnd, m.tp.snd_cwnd)
                   THEN Max(m.tp.snd_cwnd - overshoot_cwnd, TCP_INIT_CWND)
                   ELSE TCP_INIT_CWND),
       LAMBDA cwnd : [m EXCEPT !.tp.snd_cwnd = cwnd, !.tp.snd_ssthresh = cwnd])

\* a mutant: the difference is taken relative to the previous window itself
NormDiff_OverPrev(twice, curr) ==
  S32OfBig(BigDiv(BigTrunc(BigMulSmall(BigTrunc(BigSub(BigAdd(twice, Two64), curr), 64),
                                       100), 64),
                  BigDivSmall(twice, 2)))

\* norm_diff = ((2 * prev_delv_bytes) - curr_delv_bytes)*100 / (2 * prev_delv_bytes),
\* in u64 arithmetic and stored in an s32; twice is 2 * prev_delv_bytes
NormDiff(twice, curr) ==
  S32OfBig(BigDiv(BigTrunc(BigMulSmall(BigTrunc(BigSub(BigAdd(twice, Two64), curr), 64),
                                       100), 64),
                  twice))

\* search_update from "prev_idx = ..." to its end, for a bin duration that
\* is not 0; the division by 2 * prev_delv_bytes is one by zero when the
\* doubling wraps to 0
SearchCheck(m, rtt_us, env) ==
  With(U32Sub(m.ca.un.w1, U32Div(rtt_us, m.ca.un.w0)),
       LAMBDA prev_idx :
         IF ~(prev_idx >= SEARCH_BINS /\ m.ca.un.w1 - prev_idx < SEARCH_EXTRA_BINS - 1)
         THEN m
         ELSE With(search_compute_delivered_window(
                     m.ca, prev_idx - SEARCH_BINS, prev_idx,
                     U32Div(U32Mul(U32Mod(rtt_us, m.ca.un.w0), 100), m.ca.un.w0), env.oob),
                   LAMBDA prev_delv_bytes :
                     IF prev_delv_bytes = <<>> THEN m
                     ELSE With(BigTrunc(BigMulSmall(prev_delv_bytes, 2), 64),
                               LAMBDA twice :
                                 IF twice = <<>>
                                 THEN (IF env.trap THEN DivideError(m) ELSE m)
                                 ELSE With(search_compute_delivered_window(
                                             m.ca, m.ca.un.w1 - SEARCH_BINS, m.ca.un.w1, 0,
                                             env.oob),
                                           LAMBDA curr_delv_bytes :
                                             IF BigLeq(curr_delv_bytes, twice)
                                                /\ NormDiff(twice, curr_delv_bytes)
                                                     >= cfg.search_thresh
                                             THEN search_exit_slow_start(m, env)
                                             ELSE m))))

\* rtt_us / ca->search.bin_duration_us with a bin duration of 0 is a
\* division by zero: the build traps (env.trap) or goes on with a
\* quotient and a remainder of its own, with which no window is compared
search_update(m, rtt_us, now, env) ==
  With(IF m.ca.un.w0 = 0
       THEN With(U32Div(U32Mul(rtt_us, cfg.search_window_size_time), SEARCH_BINS * 10),
                 LAMBDA dur : [m EXCEPT !.ca.un = [@ EXCEPT !.w0 = dur,
                                                            !.w2 = U32Add(now, dur)]])
       ELSE m,
       LAMBDA m1 :
         IF ~U32Less(m1.ca.un.w2, now) THEN m1
         ELSE With(search_update_bins(m1, now, env),
                   LAMBDA m2 :
                     IF m2.ca.un.w0 = 0 THEN (IF env.trap THEN DivideError(m2) ELSE m2)
                     ELSE SearchCheck(m2, rtt_us, env)))

\* how far a call of bictcp_acked gets
SearchAckPath(m, rtt_us, jif) ==
  IF InvalidSample(rtt_us) THEN "invalid"
  ELSE IF m.ca.epoch_start # 0 /\ jif - m.ca.epoch_start < HZ THEN "discarded"
  ELSE IF ~tcp_in_slow_start(m.tp) THEN "delay"
  ELSE "sample"

\* a mutant: the detectors are fed in congestion avoidance too
bictcp_acked_NoGate(m, rtt_us, jif, now, env) ==
  IF InvalidSample(rtt_us) THEN m
  ELSE IF m.ca.epoch_start # 0 /\ jif - m.ca.epoch_start < HZ THEN m
  ELSE With(IF rtt_us = 0 THEN 1 ELSE rtt_us,
            LAMBDA delay :
              With([m EXCEPT !.ca.delay_min = DelayMin(@, delay)],
                   LAMBDA m1 :
                     IF cfg.slow_start_mode = SS_EXIT_POINT_SEARCH
                     THEN search_update(m1, delay, now, env)
                     ELSE IF cfg.slow_start_mode = SS_EXIT_POINT_HYSTART
                             /\ HsGet(m1.ca.un).found = 0
                             /\ m1.tp.snd_cwnd >= hystart_low_window
                          THEN hystart_update(m1, delay, now)
                     ELSE m1))

bictcp_acked(m, rtt_us, jif, now, env) ==
  IF InvalidSample(rtt_us) THEN m
  ELSE IF m.ca.epoch_start # 0 /\ jif - m.ca.epoch_start < HZ THEN m
  ELSE With(IF rtt_us = 0 THEN 1 ELSE rtt_us,
            LAMBDA delay :
              With([m EXCEPT !.ca.delay_min = DelayMin(@, delay)],
                   LAMBDA m1 :
                     IF ~tcp_in_slow_start(m1.tp) THEN m1
                     ELSE IF cfg.slow_start_mode = SS_EXIT_POINT_SEARCH
                          THEN search_update(m1, delay, now, env)
                     ELSE IF cfg.slow_start_mode = SS_EXIT_POINT_HYSTART
                             /\ HsGet(m1.ca.un).found = 0
                             /\ m1.tp.snd_cwnd >= hystart_low_window
                          THEN hystart_update(m1, delay, now)
                     ELSE m1))

\* returns the flow and the threshold handed to the transport
bictcp_recalc_ssthresh(m) ==
  [m |-> [m EXCEPT !.ca = RecalcFields(m.ca, m.tp.snd_cwnd)],
   ret |-> RecalcRet(m.tp.snd_cwnd, cfg.beta)]

(***************************************************************************)
(* The transport calls the engine through its tcp_congestion_ops table.    *)
(* env is what the machine decides during the call: whether kcalloc has    *)
(* memory (ok), what a read behind struct bictcp finds (oob), which        *)
(* reading of line 570 was built (ret), whether a division by zero traps   *)
(* (trap).                                                                 *)
(***************************************************************************)
ops_init(m, now, env) ==
  IF cfg.engine = "cubicv2" THEN cubictcp_init(m, now, env.ok) ELSE bictcp_init(m, now)

ops_ssthresh(m) ==
  IF cfg.engine = "cubicv2" THEN cubictcp_recalc_ssthresh(m) ELSE bictcp_recalc_ssthresh(m)

ops_cong_avoid(m, ack, acked, limited, jif, now) ==
  IF cfg.engine = "cubicv2" THEN cubictcp_cong_avoid(m, acked, limited, jif)
  ELSE bictcp_cong_avoid(m, ack, acked, limited, jif, now)

ops_set_state(m, new_state, now) ==
  IF cfg.engine = "cubicv2" THEN cubictcp_state(m, new_state, now)
  ELSE bictcp_state(m, new_state, now)

ops_cwnd_event(m, event, now, lsndtime) ==
  IF cfg.engine = "cubicv2" THEN cubictcp_cwnd_event(m, event, now, lsndtime)
  ELSE bictcp_cwnd_event(m, event, now, lsndtime)

ops_pkts_acked(m, rtt_us, jif, now, env) ==
  IF cfg.engine = "cubicv2" THEN cubictcp_acked(m, rtt_us, jif, now, env.ok)
  ELSE bictcp_acked(m, rtt_us, jif, now, env)

\* cubic_search registers no release
ops_release(m) == IF cfg.engine = "cubicv2" THEN bictcp_release(m) ELSE m

(***************************************************************************)
(* Bounds of the exploration.                                              *)
(***************************************************************************)
MaxCwnd == 100
MaxTicks == 2
MaxUs == 156
MaxBytes == 2 * MssCache
MaxAckCnt == 4
MaxEvents == 5
MaxDevEvents == 7

JiffiesInitSet == {-1}
TickJiffiesSet == {1, 4, 150}
TickUsSet == {63, 90}
RttSet == {-1, 60}
SearchRttSet == {-1, 2, 100}
OobSet == {0, 40000}
DelaySet == {60}
MinRttSet == {10}
AckedSet == {1, 2}
CwndSet == {1, 100}
DetectCwndSet == {1, 16}
IdleSet == {0, 2}
\* <<engine, slow_start_mode or hystart, search_enable_mode>>
CoreModeSet == {<<"cubic_search", SS_EXIT_POINT_NONE, 0>>, <<"cubicv2", 0, 0>>}
ModeSet ==
  {<<"cubic_search", SS_EXIT_POINT_NONE, 0>>, <<"cubic_search", SS_EXIT_POINT_SEARCH, 0>>,
   <<"cubic_search", SS_EXIT_POINT_HYSTART, 0>>,
   <<"cubicv2", 0, 2>>, <<"cubicv2", 1, 1>>, <<"cubicv2", 0, 0>>}
JIFFY_US == USEC_PER_SEC \div HZ

(***************************************************************************)
(* The flow: storage zeroed by the transport, then the init of the engine.  *)
(***************************************************************************)
ZeroCa ==
  [cnt |-> 0, last_max_cwnd |-> 0, loss_cwnd |-> 0, last_cwnd |-> 0, last_time |-> 0,
   bic_origin_point |-> 0, bic_K |-> 0, delay_min |-> 0, epoch_start |-> 0,
   ack_cnt |-> 0, tcp_cwnd |-> 0, sample_cnt |-> 0, found |-> 0, round_start |-> 0,
   end_seq |-> 0, last_ack |-> 0, curr_rtt |-> 0, epoch_dur_us |-> 0,
   epoch_expires_us |-> 0, start_tm_us |-> 0, index |-> 0, bins |-> NullPtr,
   bytes_acked_prev |-> 0, factor |-> 0, un |-> ZeroUnion]

InitTp(r) ==
  [snd_cwnd |-> 10, snd_ssthresh |-> TCP_INFINITE_SSTHRESH, snd_cwnd_clamp |-> MaxCwnd,
   snd_cwnd_cnt |-> 0, bytes_acked |-> 0, snd_nxt |-> 0, min_rtt |-> r,
   rate_app_limited |-> FALSE, pacing_rate |-> 0, pacing_none |-> TRUE]

ZeroHeap == [live |-> 0, allocs |-> 0, frees |-> 0, buf |-> ZeroBins, oops |-> "none",
             released |-> FALSE]

DefaultCfg(mode) ==
  [engine |-> mode[1],
   fast_convergence |-> 1, tcp_friendliness |-> 1, beta |-> BetaDefault,
   beta_scale |-> BetaScaleOf(BetaDefault),
   hystart_detect |-> HYSTART_ACK_TRAIN + HYSTART_DELAY,
   initial_ssthresh |-> IF mode[1] = "cubicv2" THEN TCP_INFINITE_SSTHRESH ELSE 0,
   slow_start_mode |-> IF mode[1] = "cubicv2" THEN 0 ELSE mode[2],
   search_window_size_time |-> SearchWindowSizeTimeDefault,
   search_thresh |-> SearchThreshDefault,
   cwnd_rollback |-> 0,
   hystart |-> IF mode[1] = "cubicv2" THEN mode[2] ELSE 0,
   search_enable_mode |-> mode[3], search_double_cross_exit |-> 0]

EnvSet ==
  IF cfg.engine = "cubicv2"
  THEN {[ok |-> b, oob |-> 0, ret |-> TRUE, trap |-> TRUE] : b \in BOOLEAN}
  ELSE {[ok |-> TRUE, oob |-> o, ret |-> r, trap |-> t] :
          o \in OobSet, r \in BOOLEAN, t \in BOOLEAN}

\* the machine of the window model's exploration, where no detector runs
PlainEnv == [ok |-> TRUE, oob |-> 0, ret |-> TRUE, trap |-> TRUE]

\* first:  no epoch has been closed by recalc since bictcp_reset last ran
\* thresh: the threshold recalc returned has not been overtaken by another event
\* exited: the delivery-trend detector has declared the exit of slow start
\* variant: the slow_start_mode the flow was initialised under
\* fresh: search_exit_slowstart has stored no factor since the init or the
\*        last loss-state event of the flow
FreshGh == [first |-> TRUE, thresh |-> FALSE, exited |-> FALSE,
            variant |-> cfg.slow_start_mode, fresh |-> TRUE]

M == [ca |-> ca, tp |-> tp, heap |-> heap]

Becomes(m) == ca' = m.ca /\ tp' = m.tp /\ heap' = m.heap

Alive == ~heap.released /\ heap.oops = "none"

vars == <<cfg, ca, tp, heap, clk, ev, gh>>

InitWith(modes) ==
  \E mode \in modes, r \in MinRttSet \cup {MinRttUnknown}, j \in JiffiesInitSet,
     ok \in BOOLEAN :
    /\ mode[1] = "cubicv2" \/ (ok /\ r = MinRttUnknown)
    /\ cfg = DefaultCfg(mode)
    /\ clk = [jiffies |-> j, mstamp |-> 0, ticks |-> 0]
    /\ \E m \in {ops_init([ca |-> ZeroCa, tp |-> InitTp(r), heap |-> ZeroHeap], 0,
                           [PlainEnv EXCEPT !.ok = ok])} :
         ca = m.ca /\ tp = m.tp /\ heap = m.heap
    /\ ev = [op |-> "init", arg |-> 0, path |-> "none", n |-> 0]
    /\ gh = FreshGh

\* the clock moves by whole jiffies
TickJiffies(d) ==
  /\ Alive
  /\ clk.ticks < MaxTicks
  /\ clk' = [jiffies |-> clk.jiffies + d, mstamp |-> clk.mstamp + d * JIFFY_US,
             ticks |-> clk.ticks + 1]
  /\ ev' = [ev EXCEPT !.op = "tick", !.arg = d, !.path = "none"]
  /\ UNCHANGED <<cfg, ca, tp, heap>>
  /\ gh' = gh

\* the clock moves within a jiffy
TickUs(d) ==
  /\ Alive
  /\ (clk.mstamp % JIFFY_US) + d <= MaxUs
  /\ clk' = [clk EXCEPT !.mstamp = @ + d]
  /\ ev' = [ev EXCEPT !.op = "tick", !.arg = d, !.path = "none"]
  /\ UNCHANGED <<cfg, ca, tp, heap>>
  /\ gh' = gh

\* the transport takes in an acknowledgment of b bytes
TransportAck(b) ==
  /\ Alive
  /\ tp.bytes_acked + b <= MaxBytes
  /\ tp' = [tp EXCEPT !.bytes_acked = @ + b, !.snd_nxt = tp.bytes_acked + b + MssCache]
  /\ ev' = [n |-> ev.n + 1, op |-> "transport", arg |-> b, path |-> "none"]
  /\ UNCHANGED <<cfg, ca, heap, clk>>
  /\ gh' = [gh EXCEPT !.thresh = FALSE]

\* the transport lowers or raises the window (loss recovery, undo)
TransportSetCwnd(w) ==
  /\ Alive
  /\ w # tp.snd_cwnd
  /\ tp' = [tp EXCEPT !.snd_cwnd = Min(w, tp.snd_cwnd_clamp), !.snd_cwnd_cnt = 0]
  /\ ev' = [n |-> ev.n + 1, op |-> "transport", arg |-> w, path |-> "none"]
  /\ UNCHANGED <<cfg, ca, heap, clk>>
  /\ gh' = [gh EXCEPT !.thresh = @ /\ w = tp.snd_ssthresh]

\* the transport's minimum-RTT filter gets its value
TransportMinRtt(r) ==
  /\ Alive
  /\ tp.min_rtt = MinRttUnknown
  /\ tp' = [tp EXCEPT !.min_rtt = r]
  /\ ev' = [n |-> ev.n + 1, op |-> "transport", arg |-> r, path |-> "none"]
  /\ UNCHANGED <<cfg, ca, heap, clk>>
  /\ gh' = [gh EXCEPT !.thresh = FALSE]

\* the call stores a factor: it writes ca->factor over a value that
\* search_exit_slowstart never computes
FactorStored(rtt_us, env) ==
  /\ cfg.engine = "cubicv2"
  /\ ops_pkts_acked([M EXCEPT !.ca.factor = SCALE_FACTOR_100 + 1], rtt_us, clk.jiffies,
                    clk.mstamp, env).ca.factor # SCALE_FACTOR_100 + 1

Acked(rtt_us, env) ==
  /\ Alive
  /\ Becomes(ops_pkts_acked(M, rtt_us, clk.jiffies, clk.mstamp, env))
  /\ ev' = [n |-> ev.n + 1, op |-> "acked", arg |-> rtt_us,
            path |-> IF cfg.engine = "cubicv2" THEN AckPath(M, rtt_us, clk.jiffies)
                     ELSE SearchAckPath(M, rtt_us, clk.jiffies)]
  /\ UNCHANGED <<cfg, clk>>
  /\ gh' = [gh EXCEPT !.thresh = FALSE,
                      !.exited = \/ @
                                 \/ ca.found = 0 /\ ca'.found >= FOUND_SSTHRESH_SEARCH
                                 \/ /\ cfg.slow_start_mode = SS_EXIT_POINT_SEARCH
                                    /\ tp'.snd_ssthresh # tp.snd_ssthresh,
                      !.fresh = @ /\ ~FactorStored(rtt_us, env)]

\* a call of cong_avoid, while the count of acked segments stays within cap
CongAvoidUpTo(acked, limited, cap) ==
  /\ Alive
  /\ ca.ack_cnt + acked <= cap
  /\ Becomes(ops_cong_avoid(M, tp.bytes_acked, acked, limited, clk.jiffies, clk.mstamp))
  /\ ev' = [n |-> ev.n + 1, op |-> "cong_avoid", arg |-> acked,
            path |-> IF ~limited THEN "none"
                     ELSE IF tcp_in_slow_start(tp) /\ tcp_slow_start(tp, acked).acked = 0
                          THEN "none"
                     ELSE With(IF tcp_in_slow_start(tp) THEN tcp_slow_start(tp, acked)
                               ELSE [tp |-> tp, acked |-> acked],
                               LAMBDA ss : UpdatePath([ca EXCEPT !.ack_cnt = @ + ss.acked],
                                                      ss.tp.snd_cwnd, clk.jiffies))]
  /\ UNCHANGED <<cfg, clk>>
  /\ gh' = [gh EXCEPT !.thresh = FALSE]

CongAvoid(acked, limited) == CongAvoidUpTo(acked, limited, MaxAckCnt)

\* the transport asks for the threshold and stores what it is given
RecalcSsthresh ==
  /\ Alive
  /\ \E x \in {ops_ssthresh(M)} :
         /\ Becomes([x.m EXCEPT !.tp.snd_ssthresh = x.ret])
         /\ ev' = [n |-> ev.n + 1, op |-> "ssthresh", arg |-> x.ret, path |-> "none"]
  /\ UNCHANGED <<cfg, clk>>
  /\ gh' = [gh EXCEPT !.first = FALSE, !.thresh = TRUE]

SetState(new_state) ==
  /\ Alive
  /\ Becomes(ops_set_state(M, new_state, clk.mstamp))
  /\ ev' = [n |-> ev.n + 1, op |-> "set_state", arg |-> IF new_state = "Loss" THEN 1 ELSE 0,
            path |-> "none"]
  /\ UNCHANGED <<cfg, clk>>
  /\ gh' = [gh EXCEPT !.first = @ \/ new_state = "Loss", !.thresh = FALSE,
                      !.fresh = @ \/ new_state = "Loss"]

CwndEvent(event, idle) ==
  /\ Alive
  /\ Becomes(ops_cwnd_event(M, event, clk.jiffies, clk.jiffies - idle))
  /\ ev' = [n |-> ev.n + 1, op |-> "cwnd_event", arg |-> idle, path |-> event]
  /\ UNCHANGED <<cfg, clk>>
  /\ gh' = [gh EXCEPT !.thresh = FALSE]

Release ==
  /\ heap.oops = "none"
  /\ Becomes([ops_release(M) EXCEPT !.heap.released = TRUE])
  /\ ev' = [n |-> ev.n + 1, op |-> "release", arg |-> IF heap.released THEN 1 ELSE 0,
            path |-> "none"]
  /\ UNCHANGED <<cfg, clk>>
  /\ gh' = [gh EXCEPT !.thresh = FALSE]

\* the window model alone: the detectors are switched off by the parameters
Init == InitWith(CoreModeSet)

Next ==
  /\ ev.n < MaxEvents
  /\ \/ \E d \in TickJiffiesSet : TickJiffies(d)
     \/ \E w \in CwndSet \cup {tp.snd_ssthresh} : TransportSetCwnd(w)
     \/ \E r \in DelaySet : Acked(r, PlainEnv)
     \/ \E a \in AckedSet, l \in BOOLEAN : CongAvoid(a, l)
     \/ RecalcSsthresh
     \/ SetState("Loss")
     \/ \E d \in IdleSet : CwndEvent("TX_START", d)

Spec == Init /\ [][Next]_vars

\* the detectors of the engine, in every mode
InitDev == InitWith(ModeSet)

NextDev ==
  /\ ev.n < MaxDevEvents
  /\ \/ \E d \in TickUsSet : TickUs(d)
     \/ \E b \in {MssCache} : TransportAck(b)
     \/ \E r \in (IF cfg.engine = "cubicv2" THEN MinRttSet ELSE {}) : TransportMinRtt(r)
     \/ \E w \in DetectCwndSet : TransportSetCwnd(w)
     \/ \E r \in (IF cfg.engine = "cubicv2" THEN RttSet ELSE SearchRttSet),
           env \in EnvSet : Acked(r, env)
     \/ SetState("Loss")
     \/ cfg.engine = "cubic_search" /\ CwndEvent("CWND_RESTART", 0)
     \/ Release

SpecDev == InitDev /\ [][NextDev]_vars

(***************************************************************************)
(* cubic_root as a function: the inputs m * 2^e up to 2^40, which hold the *)
(* table-only inputs below 64 and inputs of every bit length above.        *)
(***************************************************************************)
RootMaxMant == 63
RootMaxExp == 40

Pow2Big(e) == [i \in 1 .. (e \div LimbBits) + 1 |->
                 IF i = (e \div LimbBits) + 1 THEN 2^(e % LimbBits) ELSE 0]

RootTop == Pow2Big(10 + 3 * BICTCP_HZ)

RootInputs ==
  {a \in {BigMulSmall(Pow2Big(e), m) : m \in 1 .. RootMaxMant, e \in 0 .. RootMaxExp} :
     BigLeq(a, RootTop)}

Idle(e) ==
  /\ cfg = DefaultCfg(<<"cubic_search", SS_EXIT_POINT_NONE, 0>>)
  /\ ca = ZeroCa
  /\ tp = InitTp(MinRttUnknown)
  /\ heap = ZeroHeap
  /\ clk = [jiffies |-> 0, mstamp |-> 0, ticks |-> 0]
  /\ gh = FreshGh
  /\ ev = e

InitRoot ==
  \E a \in RootInputs :
    Idle([n |-> 0, op |-> "input", arg |-> a, path |-> "none", ret |-> 0])

CubicRootCall ==
  /\ ev.op = "input"
  /\ ev' = [ev EXCEPT !.n = 1, !.op = "cubic_root", !.ret = cubic_root(ev.arg)]
  /\ UNCHANGED <<cfg, ca, tp, heap, clk, gh>>

NextRoot == CubicRootCall

SpecRoot == InitRoot /\ [][NextRoot]_vars

(***************************************************************************)
(* bictcp_recalc_ssthresh as a function of the window, over windows of     *)
(* every bit length a native integer holds.                                *)
(***************************************************************************)
RecalcMaxExp == 27
RecalcCwndSet == {m * 2^e : m \in {1, 3, 5, 7}, e \in 0 .. RecalcMaxExp}

InitRecalc ==
  \E w \in RecalcCwndSet, e \in {0, 5}, lm \in {0, 2^30}, mode \in CoreModeSet :
    /\ cfg = DefaultCfg(mode)
    /\ ca = [ZeroCa EXCEPT !.epoch_start = e, !.last_max_cwnd = lm]
    /\ tp = [InitTp(MinRttUnknown) EXCEPT !.snd_cwnd = w]
    /\ heap = ZeroHeap
    /\ clk = [jiffies |-> 7, mstamp |-> 0, ticks |-> 0]
    /\ gh = FreshGh
    /\ ev = [n |-> 0, op |-> "input", arg |-> w, path |-> "none"]

NextRecalc == ev.op = "input" /\ RecalcSsthresh

SpecRecalc == InitRecalc /\ [][NextRecalc]_vars

(***************************************************************************)
(* Properties.                                                             *)
(***************************************************************************)
UpdateRan == ev.op = "cong_avoid" /\ ev.path # "none"

\* C1: after every call of bictcp_update, the rate-limited ones included,
\* cnt is at least 2.
C1_CntAtLeastTwo == UpdateRan => ca.cnt >= 2

C1_Witness == ev.op = "cong_avoid" /\ ev.path = "ratelimit" /\ ca.cnt >= 2

\* C2: while last_max_cwnd is 0 and no epoch has been closed by recalc since
\* the last reset, every call of bictcp_update leaves cnt at most 20.
C2_FirstEpochCap == UpdateRan /\ gh.first /\ ca.last_max_cwnd = 0 => ca.cnt <= 20

C2_Witness ==
  /\ UpdateRan /\ gh.first /\ ca.last_max_cwnd = 0
  /\ ca.cnt = 20 /\ tp.snd_cwnd = 100

\* |r^3 - x| <= x * 0.5%
CubeWithin(r, x) ==
  LET cube == BigMul(BigMul(BigOf(r), BigOf(r)), BigOf(r))
      diff == IF BigLess(cube, x) THEN BigSub(x, cube) ELSE BigSub(cube, x)
  IN  BigLeq(BigMulSmall(diff, 200), x)

\* C3 as stated: for every x in 1 .. 2^40 the cube of cubic_root(x) is within
\* 0.5% of x.
C3_Original == ev.op = "cubic_root" => CubeWithin(ev.ret, ev.arg)

\* C3, amended: for every x in 2^31 .. 2^40 the cube of cubic_root(x) is
\* within 0.5% of x.
C3_CubeWithinAbove31 ==
  ev.op = "cubic_root" /\ BigLeq(Pow2Big(31), ev.arg) => CubeWithin(ev.ret, ev.arg)

C3_Witness ==
  /\ ev.op = "cubic_root" /\ BigLeq(Pow2Big(31), ev.arg)
  /\ ev.ret > 0 /\ CubeWithin(ev.ret, ev.arg)
  /\ BigOf(ev.ret * ev.ret) # <<>> /\ ~BigLeq(ev.arg, Pow2Big(39))

\* C4 as stated: a loss-state event followed at once by bictcp_update finds
\* epoch_start 0 and leaves it non-zero, whatever the window and the clock.
C4_LossReopensEpoch ==
  [][ev.op = "set_state" /\ ev.arg = 1 /\ ev'.op = "cong_avoid" /\ ev'.path # "none"
       => ca.epoch_start = 0 /\ ca'.epoch_start # 0]_vars

\* C5 as stated: recalc, then a call of bictcp_update at the returned
\* threshold that the rate limit does not cut short, opens an epoch
\* (epoch_start non-zero) with bic_K 0 and bic_origin_point the window, when
\* last_max_cwnd is at most the window.
C5_RoundTrip ==
  [][/\ gh.thresh /\ tp.snd_cwnd = tp.snd_ssthresh
     /\ ev'.op = "cong_avoid" /\ ev'.path = "full"
     /\ ca.last_max_cwnd <= tp.snd_cwnd
     => /\ ca'.epoch_start # 0
        /\ ca'.bic_K = 0
        /\ ca'.bic_origin_point = tp.snd_cwnd]_vars

\* max(floor(cwnd * beta / 1024), 2) in unbounded arithmetic
ExactThreshold(cwnd, beta) ==
  Max(BigToNat(BigDivSmall(BigMulSmall(BigOf(cwnd), beta), BICTCP_BETA_SCALE)), 2)

\* C6 as stated: recalc returns max(floor(cwnd * beta / 1024), 2), without
\* wrap-around, for every 32-bit cwnd, and sets epoch_start to 0.
C6_ExactThreshold ==
  ev.op = "ssthresh" => ev.arg = ExactThreshold(tp.snd_cwnd, cfg.beta) /\ ca.epoch_start = 0

\* C7: an ACK sample with a negative RTT changes no field of the flow's
\* state and none of ssthresh, cwnd, cwnd_clamp, in every detector mode.
C7_InvalidSampleIgnored ==
  [][ev'.op = "acked" /\ ev'.arg < 0 => ca' = ca /\ heap' = heap /\ tp' = tp]_vars

C7_Witness ==
  /\ ev.op = "acked" /\ ev.path = "invalid"
  /\ cfg.search_enable_mode # 0 /\ tcp_in_slow_start(tp) /\ ca.found = 0
  /\ ca.bins # NullPtr /\ tp.bytes_acked > ca.bytes_acked_prev

\* C8 as stated: when the bins could not be allocated no ACK sample reads or
\* writes through the NULL pointer and the flow goes on without failure.
C8_NoNullAccess == heap.oops # "null"

\* C9: a buffer is never allocated while one is held, at most one is ever
\* allocated, release frees the one held exactly once, and a second
\* release frees nothing.
C9_BinsLifecycle ==
  /\ heap.live \in {0, 1}
  /\ heap.allocs <= 1
  /\ heap.frees <= heap.allocs
  /\ (ca.bins # NullPtr) = (heap.live = 1)
  /\ heap.released => heap.live = 0 /\ heap.frees = heap.allocs

C9_Witness ==
  /\ ev.op = "release" /\ ev.arg = 1
  /\ heap.released /\ heap.allocs = 1 /\ heap.frees = 1

\* what the delivery-trend detector owns and what it hands to the transport
DetectorView ==
  <<heap.buf, ca.index, ca.epoch_expires_us, ca.epoch_dur_us, ca.factor,
    ca.bytes_acked_prev, ca.found, ca.un, tp.snd_ssthresh, tp.snd_cwnd,
    tp.snd_cwnd_clamp>>

\* C10 as stated: once the delivery-trend detector has declared the exit no
\* later ACK sample changes ssthresh, cwnd, cwnd_clamp or a detector field
\* until an explicit restart; a loss-state event does not re-arm it.
C10_Original == [][gh.exited /\ ev'.op = "acked" => UNCHANGED DetectorView]_vars

\* C10, amended: in cubicv2, while found holds the detector's exit mark, and
\* in cubic_search, which keeps no mark, while snd_cwnd >= snd_ssthresh, no
\* ACK sample changes ssthresh, cwnd, cwnd_clamp or a detector field.  The
\* mark is cleared by bictcp_reset at a loss-state event, which re-arms the
\* detector.
C10_StoppedWhileFound ==
  [][/\ ev'.op = "acked"
     /\ \/ ca.found >= FOUND_SSTHRESH_SEARCH
        \/ cfg.engine = "cubic_search" /\ ~tcp_in_slow_start(tp)
     => UNCHANGED DetectorView]_vars

C10_Witness ==
  /\ ev.op = "acked" /\ ev.path = "stopped"
  /\ ca.found = FOUND_SNDCLAMP_SEARCH /\ gh.exited
  /\ tp.bytes_acked > ca.bytes_acked_prev

\* an ACK step in which a detector declares the exit from slow start: the
\* found mark of cubicv2 or of the HyStart member goes up, or, in the SEARCH
\* mode of cubic_search, which keeps no mark, the threshold is taken
ExitDeclared ==
  /\ ev'.op = "acked" /\ ev'.n = ev.n + 1
  /\ IF cfg.engine = "cubicv2" THEN ca.found = 0 /\ ca'.found # 0
     ELSE IF cfg.slow_start_mode = SS_EXIT_POINT_HYSTART
          THEN HsGet(ca.un).found = 0 /\ HsGet(ca'.un).found # 0
     ELSE /\ cfg.slow_start_mode = SS_EXIT_POINT_SEARCH /\ cfg.cwnd_rollback # 1
          /\ tp'.snd_ssthresh # tp.snd_ssthresh

\* C11 as stated: whenever a detector (ack-train, delay-increase, or
\* delivery-trend without rollback) declares the exit, ssthresh is set to
\* exactly the congestion window at that moment.
C11_Original == [][ExitDeclared => tp'.snd_ssthresh = tp.snd_cwnd]_vars

\* C11, amended: the ack-train and the delay-increase detector, and the
\* delivery-trend detector of cubic_search without rollback, set ssthresh to
\* exactly the congestion window; the delivery-trend detector of cubicv2
\* sets it to max(cwnd, 10).
C11_ExitSetsSsthresh ==
  [][ExitDeclared
     => tp'.snd_ssthresh = IF cfg.engine = "cubicv2" /\ ca'.found >= FOUND_SSTHRESH_SEARCH
                           THEN Max(tp.snd_cwnd, 10)
                           ELSE tp.snd_cwnd]_vars

C11_Witness ==
  /\ ev.op = "acked" /\ ev.path = "sample" /\ cfg.engine = "cubicv2"
  /\ ca.found = FOUND_SSTHRESH_SEARCH /\ tp.snd_cwnd < 10 /\ tp.snd_ssthresh = 10

(***************************************************************************)
(* The delivery-trend check of cubic_search on its own: the flow has       *)
(* filled bins 0 .. 12 with the cumulative byte counts of a history in     *)
(* which a bytes came in bins 2 and 3 and s bytes in bin 4, and the next   *)
(* ACK sample, b bytes later and past the bin boundary, stores bin 13 and  *)
(* compares the window ending there with the one an RTT earlier.           *)
(***************************************************************************)
TrendBytesSet == {0, 1000, 2000, 3000, 4000}
TrendThreshSet == {35, 75, 76}
TrendRttSet == {70, 105}

TrendBins(a, s) ==
  [i \in 0 .. SEARCH_TOTAL_BINS - 1 |->
     IF i <= 1 THEN 0 ELSE IF i <= 3 THEN a ELSE IF i <= 12 THEN a + s ELSE 0]

InitTrend ==
  \E a \in TrendBytesSet, s \in TrendBytesSet, b \in TrendBytesSet,
     th \in TrendThreshSet, w \in DetectCwndSet :
    /\ cfg = [DefaultCfg(<<"cubic_search", SS_EXIT_POINT_SEARCH, 0>>)
                EXCEPT !.search_thresh = th]
    /\ clk = [jiffies |-> 0, mstamp |-> 500, ticks |-> 0]
    /\ ca = [ZeroCa EXCEPT !.delay_min = 70,
                           !.un = [ZeroUnion EXCEPT !.w0 = 35, !.w1 = 12, !.w2 = 490,
                                                    !.bin = TrendBins(a, s)]]
    /\ tp = [InitTp(MinRttUnknown) EXCEPT !.snd_cwnd = w, !.bytes_acked = a + s + b]
    /\ heap = ZeroHeap
    /\ ev = [op |-> "init", arg |-> 0, path |-> "none", n |-> 0]
    /\ gh = FreshGh

NextTrend == ev.n < 1 /\ \E r \in TrendRttSet : Acked(r, PlainEnv)

SpecTrend == InitTrend /\ [][NextTrend]_vars

\* the bytes of the window that ends with the bin the sample stores, and of
\* the window of the same ten bins that ended two bins (an RTT of 70) earlier
TrendCurr == tp.bytes_acked - ca.un.bin[3]
TrendPrev == ca.un.bin[11] - ca.un.bin[1]

\* the previous window delivered bytes and the current one exactly half of them
HalfWindow ==
  /\ ev'.op = "acked" /\ ev'.arg = 70 /\ ev.n = 0
  /\ TrendPrev > 0 /\ 2 * TrendCurr = TrendPrev

\* C12 as stated: with exit threshold 35, when the current window's bytes
\* are exactly half of the previous window's, the check computes
\* normDiff = 50, declares exit and sets ssthresh to the current window.
C12_Original ==
  [][HalfWindow /\ cfg.search_thresh = 35
     => /\ NormDiff(BigOf(2 * TrendPrev), BigOf(TrendCurr)) = 50
        /\ tp'.snd_ssthresh = tp.snd_cwnd]_vars

\* C12, amended: when the current window's bytes are exactly half of the
\* previous window's, the check computes normDiff = 75; it declares exit
\* and sets ssthresh to the current window for every threshold up to 75
\* (35 included), and does neither for a threshold above 75.
C12_HalfGives75 ==
  [][HalfWindow
     => /\ NormDiff(BigOf(2 * TrendPrev), BigOf(TrendCurr)) = 75
        /\ IF cfg.search_thresh <= 75
           THEN tp'.snd_ssthresh = tp.snd_cwnd /\ tp'.snd_cwnd = tp.snd_cwnd
           ELSE tp' = tp]_vars

C12_Witness ==
  /\ ev.op = "acked" /\ ev.arg = 70 /\ cfg.search_thresh = 35
  /\ ca.un.w1 = 13 /\ ca.un.bin[11] - ca.un.bin[1] = 2000
  /\ ca.un.bin[13] - ca.un.bin[3] = 1000
  /\ tp.snd_ssthresh = tp.snd_cwnd

(***************************************************************************)
(* The bin update of cubic_search on its own: the flow has stored bins up  *)
(* to curr_idx at some scale factor, the bins of a ring that has wrapped   *)
(* when curr_idx is past its end, and the next ACK sample comes with a     *)
(* cumulative byte count that may not fit a bin at that scale.             *)
(***************************************************************************)
ScaleIdxSet == {5, 24, 30}
ScaleFactorSet == {0, 1, 3}
ScaleStepSet == {1, 1001, 2100}
ScaleExtraSet == {1, 70001, 4000001}
ScaleNowSet == {500, 530, 600}

\* the ring after the bins 0 .. idx were stored, bin j holding (j + 1) * step
ScaleBins(step, idx) ==
  [i \in 0 .. SEARCH_TOTAL_BINS - 1 |->
     IF idx - ((idx - i) % SEARCH_TOTAL_BINS) >= 0
     THEN (idx - ((idx - i) % SEARCH_TOTAL_BINS) + 1) * step
     ELSE 0]

InitScale ==
  \E idx \in ScaleIdxSet, sf \in ScaleFactorSet, step \in ScaleStepSet,
     extra \in ScaleExtraSet, now \in ScaleNowSet :
    /\ cfg = DefaultCfg(<<"cubic_search", SS_EXIT_POINT_SEARCH, 0>>)
    /\ clk = [jiffies |-> 0, mstamp |-> now, ticks |-> 0]
    /\ ca = [ZeroCa EXCEPT !.delay_min = 70,
                           !.un = [ZeroUnion EXCEPT !.w0 = 35, !.w1 = idx, !.w2 = 490,
                                                    !.bin = ScaleBins(step, idx),
                                                    !.scale_factor = sf]]
    /\ tp = [InitTp(MinRttUnknown)
               EXCEPT !.bytes_acked = (idx + 1) * step * (2^sf) + extra]
    /\ heap = ZeroHeap
    /\ ev = [op |-> "init", arg |-> 0, path |-> "none", n |-> 0]
    /\ gh = FreshGh

NextScale == ev.n < 1 /\ \E r \in TrendRttSet, env \in EnvSet : Acked(r, env)

SpecScale == InitScale /\ [][NextScale]_vars

\* the bins the sample passes, and by how much the step raises the scale
ScalePassed == ((clk.mstamp - ca.un.w2) \div ca.un.w0) + 1
ScaleGrowth == ca'.un.scale_factor - ca.un.scale_factor

\* a bin update, without a reset, whose raw count does not fit a bin
RawOverflow ==
  /\ ev'.op = "acked" /\ ev.n = 0 /\ ScalePassed < 3
  /\ tp.bytes_acked \div (2^ca.un.scale_factor) > MAX_US_INT

\* C13: after a bin update whose raw cumulative byte count exceeds the
\* 16-bit range, every bin stored before has been shifted right by the
\* amount added to the scale factor, the new bin holds the byte count
\* shifted by the new scale factor (so stored << scale_factor is the byte
\* value up to the bits the shift lost), and every bin is <= 0xFFFF.
C13_RescaledTogether ==
  [][RawOverflow
     => /\ ScaleGrowth > 0
        /\ \A i \in 0 .. SEARCH_TOTAL_BINS - 1 :
             /\ ca'.un.bin[i] <= MAX_US_INT
             /\ \/ i = (ca.un.w1 + ScalePassed) % SEARCH_TOTAL_BINS
                \/ ScalePassed = 2 /\ i = (ca.un.w1 + 1) % SEARCH_TOTAL_BINS
                \/ /\ ca'.un.bin[i] = ca.un.bin[i] \div (2^ScaleGrowth)
                   /\ ca.un.bin[i] - ca'.un.bin[i] * (2^ScaleGrowth) < 2^ScaleGrowth
        /\ ca'.un.bin[(ca.un.w1 + ScalePassed) % SEARCH_TOTAL_BINS]
             = tp.bytes_acked \div (2^ca'.un.scale_factor)
        /\ tp.bytes_acked \div (2^(ca'.un.scale_factor - 1)) > MAX_US_INT]_vars

C13_Witness ==
  /\ ev.op = "acked" /\ ca.un.w1 = 6 /\ ca.un.scale_factor = 6
  /\ tp.bytes_acked = 4048049
  /\ ca.un.bin[5] = 6006 \div 8 /\ ca.un.bin[6] = 4048049 \div 64

\* C14: a TX_START event with zero idle time (now = lsndtime) leaves
\* epoch_start and every other field of the flow unchanged, and applying
\* it twice gives what applying it once gives.
C14_ZeroIdleNoChange ==
  /\ [][ev'.op = "cwnd_event" /\ ev'.path = "TX_START" /\ ev'.arg = 0
        => ca' = ca /\ tp' = tp /\ heap' = heap]_vars
  /\ [](ops_cwnd_event(ops_cwnd_event(M, "TX_START", clk.jiffies, clk.jiffies),
                       "TX_START", clk.jiffies, clk.jiffies)
          = ops_cwnd_event(M, "TX_START", clk.jiffies, clk.jiffies))

C14_Witness ==
  /\ ev.op = "cwnd_event" /\ ev.path = "TX_START" /\ ev.arg = 0
  /\ ca.epoch_start # 0 /\ clk.jiffies - ca.epoch_start > 0

(***************************************************************************)
(* The running minimum of the delay samples: every engine and mode, the    *)
(* samples of several sizes, a sample of 0 us among them.                  *)
(***************************************************************************)
MaxDelayEvents == 4
DelayRttSet == {-1, 0, 2, 60, 100}

InitDelay == InitWith(ModeSet)

NextDelay ==
  /\ ev.n < MaxDelayEvents
  /\ \/ \E d \in {150} : TickJiffies(d)
     \/ \E r \in DelayRttSet : Acked(r, PlainEnv)
     \/ \E a \in {1} : CongAvoid(a, TRUE)
     \/ RecalcSsthresh
     \/ SetState("Loss")
     \/ \E d \in IdleSet : CwndEvent("TX_START", d)

SpecDelay == InitDelay /\ [][NextDelay]_vars

\* a step of a handler that is no reset: an ACK sample, a window update, a
\* threshold recalculation or an idle restart
NoResetStep ==
  ev'.n = ev.n + 1 /\ ev'.op \in {"acked", "cong_avoid", "ssthresh", "cwnd_event"}

\* an ACK sample that is neither invalid nor discarded after a recovery
AcceptedSample ==
  ev'.n = ev.n + 1 /\ ev'.op = "acked" /\ ev'.path \notin {"invalid", "discarded"}

\* C15 as stated: delay_min never increases across an ACK sample, an
\* update, a threshold recalculation or an idle restart, and after an
\* accepted sample it is >= 1 and <= that sample's RTT.
C15_Original ==
  [][/\ NoResetStep => ca'.delay_min <= ca.delay_min
     /\ AcceptedSample => ca'.delay_min >= 1 /\ ca'.delay_min <= ev'.arg]_vars

\* C15, amended: delay_min, once it holds a sample (is not 0), never
\* increases and never goes back to 0 across an ACK sample, an update, a
\* threshold recalculation or an idle restart; only the reset at a loss
\* state takes it to 0, and the first accepted sample after that raises it
\* from 0 to the sample; after an accepted sample it is >= 1 and
\* <= max(RTT, 1), a sample of 0 us being taken as 1.
C15_MinDelayMonotone ==
  [][/\ NoResetStep /\ ca.delay_min # 0
        => ca'.delay_min <= ca.delay_min /\ ca'.delay_min >= 1
     /\ NoResetStep /\ ca.delay_min = 0 /\ ~AcceptedSample => ca'.delay_min = 0
     /\ AcceptedSample => ca'.delay_min >= 1 /\ ca'.delay_min <= Max(ev'.arg, 1)
     /\ ca.delay_min # 0 /\ ca'.delay_min = 0 => ev'.op = "set_state"]_vars

C15_Witness ==
  /\ ev.op = "acked" /\ ev.arg = 100 /\ ev.n = 3 /\ ca.delay_min = 2

\* C16 as stated: after a loss-state event every field of the window model
\* is zero and the active detector is in the state its own reset produces
\* (delivery-trend: all bins 0, the index at its initial value, duration
\* and boundary unset, scale factor 0), no field of it being overwritten
\* by the reset of the other detector.
C16_LossResetsDetector ==
  [][ev'.op = "set_state" /\ ev'.arg = 1 /\ ev'.n = ev.n + 1
     => /\ ca'.cnt = 0 /\ ca'.last_max_cwnd = 0 /\ ca'.last_cwnd = 0
        /\ ca'.last_time = 0 /\ ca'.bic_origin_point = 0 /\ ca'.bic_K = 0
        /\ ca'.delay_min = 0 /\ ca'.epoch_start = 0 /\ ca'.ack_cnt = 0
        /\ ca'.tcp_cwnd = 0
        /\ cfg.engine = "cubic_search" /\ cfg.slow_start_mode = SS_EXIT_POINT_SEARCH
           => /\ ca'.un.bin = ZeroUnion.bin
              /\ ca'.un.w0 = 0 /\ ca'.un.w1 = -1 /\ ca'.un.w2 = 0
              /\ ca'.un.scale_factor = 0
        /\ cfg.engine = "cubic_search" /\ cfg.slow_start_mode = SS_EXIT_POINT_HYSTART
           => HsGet(ca'.un) = [unused |-> 0, sample_cnt |-> 0, found |-> 0,
                               round_start |-> clk.mstamp, end_seq |-> tp.snd_nxt,
                               last_ack |-> clk.mstamp, curr_rtt |-> CurrRttMax]
        /\ cfg.engine = "cubicv2" /\ cfg.search_enable_mode # 0 /\ ca.bins # NullPtr
           => ca'.index = 0 /\ heap'.buf = ZeroBins /\ ca'.found = 0]_vars

(***************************************************************************)
(* The init handler run on storage that was used before: the private area  *)
(* of the socket holds what an earlier use left in it, the value x in      *)
(* every field and the address of a buffer that is no longer allocated.    *)
(***************************************************************************)
DirtyValueSet == {0, 7, 9}
DirtyNowSet == {0, 63}

DirtyCa(x) ==
  IF x = 0 THEN ZeroCa
  ELSE [f \in DOMAIN ZeroCa |->
          IF f = "un"
          THEN [w0 |-> x, w1 |-> x, w2 |-> x,
                bin |-> [i \in 0 .. SEARCH_TOTAL_BINS - 1 |-> x],
                unused |-> 0, scale_factor |-> x]
          ELSE IF f = "bins" THEN BinsAddr
          ELSE x]

InitDirty ==
  \E mode \in ModeSet, r \in MinRttSet \cup {MinRttUnknown}, x \in DirtyValueSet,
     now \in DirtyNowSet :
    /\ cfg = DefaultCfg(mode)
    /\ clk = [jiffies |-> 0, mstamp |-> now, ticks |-> 0]
    /\ ca = DirtyCa(x)
    /\ tp = InitTp(r)
    /\ heap = ZeroHeap
    /\ ev = [op |-> "dirty", arg |-> x, path |-> "none", n |-> 0]
    /\ gh = FreshGh

\* the transport calls the init handler
InitCall(ok) ==
  /\ ev.op = "dirty"
  /\ Becomes(ops_init(M, clk.mstamp, [PlainEnv EXCEPT !.ok = ok]))
  /\ ev' = [ev EXCEPT !.op = "init", !.n = 1]
  /\ UNCHANGED <<cfg, clk, gh>>

NextDirty == \E ok \in BOOLEAN : InitCall(ok)

SpecDirty == InitDirty /\ [][NextDirty]_vars

\* C17 as stated: after init every field of the flow holds its zero or
\* initial value whatever the storage held before (the bins pointer, the
\* index, the previous factor and bytes_acked_prev included), and the
\* configured detector is in its reset state.
C17_InitClearsStorage ==
  ev.op = "init"
  => /\ ca.cnt = 0 /\ ca.last_max_cwnd = 0 /\ ca.last_cwnd = 0 /\ ca.last_time = 0
     /\ ca.bic_origin_point = 0 /\ ca.bic_K = 0 /\ ca.delay_min = 0
     /\ ca.epoch_start = 0 /\ ca.ack_cnt = 0 /\ ca.tcp_cwnd = 0
     /\ cfg.engine = "cubicv2"
        => /\ ca.loss_cwnd = 0 /\ ca.found = 0 /\ ca.factor = 0 /\ ca.index = 0
           /\ ca.bytes_acked_prev = tp.bytes_acked
           /\ ca.bins # NullPtr => heap.live = 1 /\ heap.buf = ZeroBins
     /\ cfg.engine = "cubic_search" /\ cfg.slow_start_mode = SS_EXIT_POINT_SEARCH
        => /\ ca.un.bin = ZeroUnion.bin /\ ca.un.w0 = 0 /\ ca.un.w1 = -1
           /\ ca.un.w2 = 0 /\ ca.un.scale_factor = 0
     /\ cfg.engine = "cubic_search" /\ cfg.slow_start_mode = SS_EXIT_POINT_HYSTART
        => /\ HsGet(ca.un).found = 0 /\ HsGet(ca.un).sample_cnt = 0
           /\ HsGet(ca.un).round_start = clk.mstamp
           /\ HsGet(ca.un).last_ack = clk.mstamp
           /\ HsGet(ca.un).curr_rtt = CurrRttMax

C19_NoZeroDivide == heap.oops # "divide"

\* an ACK sample of cubic_search in slow start that finds the clock past the
\* end of the latest bin, and the bins it has passed
BinBoundaryStep ==
  /\ cfg.engine = "cubic_search" /\ cfg.slow_start_mode = SS_EXIT_POINT_SEARCH
  /\ ev'.op = "acked" /\ ev'.path = "sample" /\ ev'.n = ev.n + 1
  /\ ca.un.w0 > 0 /\ clk.mstamp > ca.un.w2
PassedBins == ((clk.mstamp - ca.un.w2) \div ca.un.w0) + 1

\* C20 as stated: an ACK sample that comes after more bin boundaries than
\* the ring holds resets the detector wholesale (bins, index, duration,
\* boundary, scale factor) and makes no exit check; after fewer boundaries
\* the missed bins are filled and there is no reset.
C20_ResetOnlyBeyondRing ==
  [][BinBoundaryStep
     => IF PassedBins - 1 > SEARCH_TOTAL_BINS
        THEN /\ ca'.un.bin = ZeroUnion.bin /\ ca'.un.w0 = 0 /\ ca'.un.w1 = -1
             /\ ca'.un.w2 = 0 /\ ca'.un.scale_factor = 0
             /\ heap' = heap /\ tp' = tp
        ELSE /\ ca'.un.w0 = ca.un.w0
             /\ ca'.un.w1 = ca.un.w1 + PassedBins
             /\ ca'.un.w2 = ca.un.w2 + PassedBins * ca.un.w0]_vars

(***************************************************************************)
(* The window model over long epochs: the clock moves by minutes between   *)
(* the calls.                                                              *)
(***************************************************************************)
LongTickSet == {1, 20000, 40000}
MaxLongEvents == 5

NextLong ==
  /\ ev.n < MaxLongEvents
  /\ \/ \E d \in LongTickSet : TickJiffies(d)
     \/ \E w \in CwndSet : TransportSetCwnd(w)
     \/ \E a \in AckedSet, l \in BOOLEAN : CongAvoid(a, l)
     \/ RecalcSsthresh

SpecLong == Init /\ [][NextLong]_vars

\* floor(cube_rtt_scale * offs^3 / 2^40) in unbounded integers
ExactDelta(offs) ==
  BigShr(BigMul(BigMul(BigMul(BigOf(CubeRttScaleOf(BicScaleDefault)), offs), offs), offs),
         10 + 3 * BICTCP_HZ)

\* C21 as stated: whenever bictcp_update has gone through its cubic
\* calculation, the delta it used equals floor(cube_rtt_scale * offs^3 / 2^40)
\* computed without bounds, offs = |t - K| being taken from the epoch age and
\* K of the flow: the 64-bit product and the 32-bit delta lose nothing.
C21_DeltaExact ==
  ev.op = "cong_avoid" /\ ev.path = "full"
    => CubicDelta(CubicOffs(ca, CubicT(ca, clk.jiffies)))
         = ExactDelta(CubicOffs(ca, CubicT(ca, clk.jiffies)))

(***************************************************************************)
(* The window model of a module loaded with another beta: beta_scale is    *)
(* computed from it once, in cubicsearch_register.                         *)
(***************************************************************************)
BetaSet == {100, 400, BetaDefault}
MaxBetaEvents == 4

InitBeta ==
  \E mode \in CoreModeSet, b \in BetaSet, j \in JiffiesInitSet :
    /\ cfg = [DefaultCfg(mode) EXCEPT !.beta = b, !.beta_scale = BetaScaleOf(b)]
    /\ clk = [jiffies |-> j, mstamp |-> 0, ticks |-> 0]
    /\ \E m \in {ops_init([ca |-> ZeroCa, tp |-> InitTp(MinRttUnknown), heap |-> ZeroHeap],
                           0, PlainEnv)} :
         ca = m.ca /\ tp = m.tp /\ heap = m.heap
    /\ ev = [op |-> "init", arg |-> 0, path |-> "none", n |-> 0]
    /\ gh = FreshGh

NextBeta ==
  /\ ev.n < MaxBetaEvents
  /\ \/ \E d \in TickJiffiesSet : TickJiffies(d)
     \/ \E w \in CwndSet : TransportSetCwnd(w)
     \/ \E a \in AckedSet, l \in BOOLEAN : CongAvoid(a, l)
     \/ RecalcSsthresh

SpecBeta == InitBeta /\ [][NextBeta]_vars

\* C22 as stated: every call of the engine returns; the loop of the
\* Reno-shadow window in bictcp_update ends for every window the flow can
\* have and every beta the module can be loaded with.
C22_EveryCallReturns == heap.oops # "hang"

(***************************************************************************)
(* The detectors of cubic_search while an administrator writes the module  *)
(* parameter slow_start_mode (mode 0644) during the life of the flow.      *)
(***************************************************************************)
AdminModeSet == {SS_EXIT_POINT_NONE, SS_EXIT_POINT_SEARCH, SS_EXIT_POINT_HYSTART}
MaxAdminEvents == 4

InitAdmin == InitWith({mode \in ModeSet : mode[1] = "cubic_search"})

\* a write of /sys/module/.../parameters/slow_start_mode
SetParam(mode) ==
  /\ Alive
  /\ mode # cfg.slow_start_mode
  /\ cfg' = [cfg EXCEPT !.slow_start_mode = mode]
  /\ ev' = [n |-> ev.n + 1, op |-> "param", arg |-> mode, path |-> "none"]
  /\ UNCHANGED <<ca, tp, heap, clk>>
  /\ gh' = [gh EXCEPT !.thresh = FALSE]

NextAdmin ==
  /\ ev.n < MaxAdminEvents
  /\ \/ \E d \in TickUsSet : TickUs(d)
     \/ \E b \in {MssCache} : TransportAck(b)
     \/ \E r \in SearchRttSet, env \in EnvSet : Acked(r, env)
     \/ \E mode \in AdminModeSet : SetParam(mode)

SpecAdmin == InitAdmin /\ [][NextAdmin]_vars

\* C23 as stated: an ACK sample that comes while slow_start_mode differs
\* from the value the flow was initialised under leaves the detector storage
\* of the flow (the union of both variants' fields) as it was: the variant
\* the parameter now names does not work on it.
C23_VariantFixedAtInit ==
  [][ev'.op = "acked" /\ ev'.n = ev.n + 1 /\ cfg.slow_start_mode # gh.variant
     => ca'.un = ca.un]_vars

\* a call of cong_avoid in which bictcp_update opens an epoch: epoch_start
\* goes from 0 to a non-zero value
OpensEpoch == ev'.op = "cong_avoid" /\ ca.epoch_start = 0 /\ ca'.epoch_start # 0

\* the segments cong_avoid hands to bictcp_update: what slow start left over
UpdateAcked ==
  IF tcp_in_slow_start(tp) THEN tcp_slow_start(tp, ev'.arg).acked ELSE ev'.arg

\* C24 as stated: bic_origin_point and bic_K change only in a step that opens
\* an epoch (epoch_start from 0 to non-zero) or in a reset; the step that
\* opens an epoch at window w sets them to w and 0 if last_max_cwnd <= w, else
\* to last_max_cwnd and cubic_root(cube_factor * (last_max_cwnd - w)), and
\* restarts ack_cnt from the acked segments and tcp_cwnd from w (the values
\* the Reno-shadow loop of the same call then starts from).
C24_OriginOncePerEpoch ==
  [][/\ ca'.bic_origin_point # ca.bic_origin_point \/ ca'.bic_K # ca.bic_K
          => OpensEpoch \/ ev'.op = "set_state"
     /\ OpensEpoch
          => /\ ca'.bic_origin_point = Max(ca.last_max_cwnd, ca'.last_cwnd)
             /\ ca'.bic_K = IF ca.last_max_cwnd <= ca'.last_cwnd THEN 0
                            ELSE cubic_root(BigTrunc(BigMul(CubeFactorOf(BicScaleDefault),
                                                            BigOf(ca.last_max_cwnd
                                                                    - ca'.last_cwnd)), 64))
             /\ \E c \in {RenoLoop([ack_cnt |-> UpdateAcked, tcp_cwnd |-> ca'.last_cwnd],
                                   RenoDelta(ca'.last_cwnd))} :
                  ca'.ack_cnt = c.ack_cnt /\ ca'.tcp_cwnd = c.tcp_cwnd]_vars

\* the window cong_avoid hands to bictcp_update: snd_cwnd after slow start
UpdateCwnd ==
  IF tcp_in_slow_start(tp) THEN tcp_slow_start(tp, ev'.arg).tp.snd_cwnd ELSE tp.snd_cwnd

\* C25: a call of bictcp_update with the window equal to last_cwnd, less
\* than HZ/32 ticks after last_time, changes ack_cnt by the acked segments and
\* no other field of the flow: cnt, epoch_start, bic_origin_point, bic_K,
\* last_cwnd, last_time and tcp_cwnd stay.
C25_RateLimitedFrame ==
  [][/\ ev'.op = "cong_avoid" /\ ev'.path # "none"
     /\ UpdateCwnd = ca.last_cwnd
     /\ clk.jiffies - ca.last_time < HZ \div 32
     => ca' = [ca EXCEPT !.ack_cnt = @ + UpdateAcked]]_vars

\* a rate-limited call one or two ticks after the last full one
C25_Witness ==
  /\ ev.op = "cong_avoid" /\ ev.path = "ratelimit"
  /\ clk.jiffies - ca.last_time \in 1 .. (HZ \div 32) - 1
  /\ ca.epoch_start # 0 /\ ca.ack_cnt >= 2

(***************************************************************************)
(* The window model under stretch ACKs: one call of cong_avoid may carry   *)
(* more segments than delta, so that the Reno-shadow window moves.         *)
(***************************************************************************)
StretchSet == {1, 8, 24}
MaxStretchCnt == 40
MaxStretchEvents == 4

NextStretch ==
  /\ ev.n < MaxStretchEvents
  /\ \/ \E d \in TickJiffiesSet : TickJiffies(d)
     \/ \E w \in CwndSet \cup {tp.snd_ssthresh} : TransportSetCwnd(w)
     \/ \E a \in StretchSet, l \in BOOLEAN : CongAvoidUpTo(a, l, MaxStretchCnt)
     \/ RecalcSsthresh

SpecStretch == Init /\ [][NextStretch]_vars

\* what the cubic calculation and the first-epoch cap of the call made of
\* cnt, read from the fields the call has left (the friendliness block
\* changes none of the fields the calculation reads)
CubicValue == FirstEpochCap([ca' EXCEPT !.cnt = CubicCnt(ca', UpdateCwnd, clk.jiffies)]).cnt

\* C26: with tcp_friendliness on, a call of bictcp_update that is not
\* rate-limited and leaves tcp_cwnd above the window w leaves
\* cnt <= max(w / (tcp_cwnd - w), 2); and the friendliness block does not
\* raise cnt: after the call cnt is at most the value the cubic calculation
\* gave (or, when the calculation was skipped, the value the previous call
\* left), but for the floor of 2 of the last statement.
C26_RenoCap ==
  [][ev'.op = "cong_avoid" /\ ev'.path \in {"full", "friendly"} /\ cfg.tcp_friendliness # 0
     => /\ ca'.tcp_cwnd > UpdateCwnd
             => ca'.cnt <= Max(UpdateCwnd \div (ca'.tcp_cwnd - UpdateCwnd), 2)
        /\ ev'.path = "friendly" => ca'.cnt <= Max(ca.cnt, 2)
        /\ ev'.path = "full" => ca'.cnt <= Max(CubicValue, 2)]_vars

\* the cap has acted: the Reno-shadow window is ahead of the window and cnt
\* is the Reno rate, below what the cubic calculation gave
C26_Witness ==
  /\ ev.op = "cong_avoid" /\ ev.path = "full"
  /\ ca.tcp_cwnd > ca.last_cwnd
  /\ ca.cnt = ca.last_cwnd \div (ca.tcp_cwnd - ca.last_cwnd)
  /\ ca.cnt > 2
  /\ ca.cnt < CubicCnt(ca, ca.last_cwnd, clk.jiffies)

\* C27 as stated: bictcp_recalc_ssthresh sets last_max_cwnd to
\* floor(cwnd * (1024 + beta) / 2048), computed without wrap-around, when
\* cwnd < last_max_cwnd and fast_convergence is on, and to cwnd otherwise;
\* afterwards last_max_cwnd <= cwnd; for every 32-bit cwnd.
C27_ExactLastMax ==
  [][ev'.op = "ssthresh"
     => /\ ca'.last_max_cwnd =
             IF tp.snd_cwnd < ca.last_max_cwnd /\ cfg.fast_convergence # 0
             THEN BigToNat(BigDivSmall(BigMulSmall(BigOf(tp.snd_cwnd),
                                                   BICTCP_BETA_SCALE + cfg.beta),
                                       2 * BICTCP_BETA_SCALE))
             ELSE tp.snd_cwnd
        /\ ca'.last_max_cwnd <= tp.snd_cwnd]_vars

\* the earlier of two clock readings, in the wrap-safe order of after()
Earlier(a, b) == IF a - b > 0 THEN b ELSE a

\* C28 as stated: a TX_START event that finds an epoch open after a positive
\* idle time d sets epoch_start to the earlier of epoch_start + d and now,
\* leaves it no later than now and still open (non-zero), and changes no
\* other field; with no epoch open it changes nothing.
C28_IdleShift ==
  [][ev'.op = "cwnd_event" /\ ev'.path = "TX_START" /\ ev'.n = ev.n + 1
     => /\ tp' = tp /\ heap' = heap
        /\ IF ca.epoch_start # 0 /\ ev'.arg > 0
           THEN /\ ca' = [ca EXCEPT !.epoch_start = Earlier(@ + ev'.arg, clk.jiffies)]
                /\ ca'.epoch_start - clk.jiffies <= 0
                /\ ca'.epoch_start # 0
           ELSE ev'.arg >= 0 => ca' = ca]_vars

\* the fields of the two slow-start-exit detectors, of both engines
DetectorFields ==
  <<ca.un, ca.found, ca.sample_cnt, ca.round_start, ca.end_seq, ca.last_ack, ca.curr_rtt,
    ca.epoch_dur_us, ca.epoch_expires_us, ca.start_tm_us, ca.index, ca.bins,
    ca.bytes_acked_prev, ca.factor, heap.buf, heap.live>>

\* C29: an ACK sample or a call of cong_avoid that finds the flow out of slow
\* start (snd_cwnd >= snd_ssthresh) changes no field of either detector, and
\* neither snd_ssthresh nor snd_cwnd_clamp.
C29_DetectorsOnlyInSlowStart ==
  [][ev'.op \in {"acked", "cong_avoid"} /\ ev'.n = ev.n + 1 /\ ~tcp_in_slow_start(tp)
     => /\ DetectorFields' = DetectorFields
        /\ tp'.snd_ssthresh = tp.snd_ssthresh
        /\ tp'.snd_cwnd_clamp = tp.snd_cwnd_clamp]_vars

\* a valid sample taken in congestion avoidance by a flow whose
\* delivery-trend detector holds a bin duration from slow start
C29_Witness ==
  /\ ev.op = "acked" /\ ev.path = "delay" /\ ~tcp_in_slow_start(tp)
  /\ cfg.slow_start_mode = SS_EXIT_POINT_SEARCH /\ ca.un.w0 > 0
  /\ ca.delay_min = ev.arg

(***************************************************************************)
(* The exit check of the delivery-trend detector of both engines: a flow   *)
(* in slow start with a ring of bins filled, and one ACK sample past the   *)
(* end of a bin.  The cubicv2 flow has min_rtt 100 (bins of 35 us), its    *)
(* bins 11 .. 30 hold p bytes each and its bins 31 .. 40 hold c bytes each.*)
(***************************************************************************)
ExitBytesSet == {0, 1000, 4000}

ExitBins(p, c) == [i \in 0 .. TOTAL_NUM_BINS - 1 |-> IF i \in 1 .. 10 THEN c ELSE p]

InitExitDev ==
  \E p \in ExitBytesSet, c \in ExitBytesSet, b \in ExitBytesSet, w \in DetectCwndSet,
     mode \in {1, 2} :
    /\ cfg = DefaultCfg(<<"cubicv2", 0, mode>>)
    /\ clk = [jiffies |-> 0, mstamp |-> 500, ticks |-> 0]
    /\ ca = [ZeroCa EXCEPT !.delay_min = 70, !.epoch_dur_us = 35, !.epoch_expires_us = 490,
                           !.index = 40, !.bins = BinsAddr,
                           !.bytes_acked_prev = 20 * p + 10 * c]
    /\ tp = [InitTp(100) EXCEPT !.snd_cwnd = w, !.bytes_acked = 20 * p + 10 * c + b]
    /\ heap = [ZeroHeap EXCEPT !.live = 1, !.allocs = 1, !.buf = ExitBins(p, c)]
    /\ ev = [op |-> "init", arg |-> 0, path |-> "none", n |-> 0]
    /\ gh = FreshGh

InitExit == InitTrend \/ InitExitDev

NextExit ==
  /\ ev.n < 1
  /\ \E r \in TrendRttSet : Acked(r, PlainEnv)

SpecExit == InitExit /\ [][NextExit]_vars

\* the bytes of the last ten whole bins, and of the ten bins that ended one
\* RTT (ev'.arg) earlier
ExitCurr ==
  IF cfg.engine = "cubicv2" THEN get_window_sum(heap.buf, 31, 40, TOTAL_NUM_BINS)
  ELSE TrendCurr
ExitPrev ==
  IF cfg.engine = "cubicv2"
  THEN get_window_sum(heap.buf, 31 - ev'.arg \div ca.epoch_dur_us,
                      40 - ev'.arg \div ca.epoch_dur_us, TOTAL_NUM_BINS)
  ELSE IF ev'.arg = 70 THEN TrendPrev ELSE ca.un.bin[10] - ca.un.bin[0]
ExitThreshold == IF cfg.engine = "cubicv2" THEN search_exit_thresh ELSE cfg.search_thresh

\* C30 as stated: a sample at a bin boundary makes the delivery-trend
\* detector declare the exit if and only if the previous window's bytes are
\* positive, twice them is at least the current window's bytes, and
\* (2*prev - curr) * 100 / (2*prev) is at least the exit threshold.
C30_ExitIff ==
  [][ev'.op = "acked" /\ ev.n = 0
     => ((IF cfg.engine = "cubicv2" THEN ca'.found # 0
          ELSE tp'.snd_ssthresh # tp.snd_ssthresh)
         <=> /\ ExitPrev > 0
             /\ 2 * ExitPrev >= ExitCurr
             /\ ((2 * ExitPrev - ExitCurr) * 100) \div (2 * ExitPrev) >= ExitThreshold)]_vars

(***************************************************************************)
(* The double-cross exit of cubicv2.  A flow in slow start with min_rtt    *)
(* 100 (bins of 35 us) whose samples so far had short round trips, so that *)
(* no factor was stored yet: index 60, the bins 31 .. 40 hold 1000 bytes   *)
(* each, the bins 51 .. 60 hold c bytes each.  Samples of 20 or 25 bins of *)
(* round trip arrive, and the loss state is entered between them.          *)
(***************************************************************************)
CrossBytesSet == {0, 1000, 4000}
CrossRttSet == {70, 700, 875}
CrossTickSet == {35, 63}
MaxCrossEvents == 3

CrossBins(c) ==
  [i \in 0 .. TOTAL_NUM_BINS - 1 |->
     IF i \in 1 .. 10 THEN 1000 ELSE IF i = 0 \/ i >= 21 THEN c ELSE 0]

InitCross ==
  \E c \in CrossBytesSet, mode \in {1, 2} :
    /\ cfg = [DefaultCfg(<<"cubicv2", 0, mode>>) EXCEPT !.search_double_cross_exit = 1]
    /\ clk = [jiffies |-> 1, mstamp |-> JIFFY_US, ticks |-> 0]
    /\ ca = [ZeroCa EXCEPT !.delay_min = 70, !.epoch_dur_us = 35,
                           !.epoch_expires_us = JIFFY_US - 10,
                           !.index = 60, !.bins = BinsAddr,
                           !.bytes_acked_prev = 10000 + 10 * c]
    /\ tp = [InitTp(100) EXCEPT !.bytes_acked = 10000 + 10 * c]
    /\ heap = [ZeroHeap EXCEPT !.live = 1, !.allocs = 1, !.buf = CrossBins(c)]
    /\ ev = [op |-> "init", arg |-> 0, path |-> "none", n |-> 0]
    /\ gh = FreshGh

NextCross ==
  /\ ev.n < MaxCrossEvents
  /\ \/ \E d \in CrossTickSet : TickUs(d)
     \/ \E r \in CrossRttSet : Acked(r, PlainEnv)
     \/ SetState("Loss")

SpecCross == InitCross /\ [][NextCross]_vars

\* C31 as stated: with search_double_cross_exit set, a sample declares the
\* exit only when the factor it computes and the factor computed before it
\* are both at least search_exit_thresh, and the earlier one was computed
\* since the flow's last reset (init or loss state): a factor left over
\* from before the reset never counts as the first of the two.
C31_TwoSamplesSinceReset ==
  [][/\ ev'.op = "acked" /\ ev'.n = ev.n + 1
     /\ cfg.search_double_cross_exit # 0
     /\ ca.found = 0 /\ ca'.found >= FOUND_SSTHRESH_SEARCH
     => /\ ~gh.fresh
        /\ ca.factor >= search_exit_thresh
        /\ ca'.factor >= search_exit_thresh]_vars

\* the part of C31 that the code keeps: the exit needs the stored factor
\* and the new one at or above the threshold
C31_BothAboveThreshold ==
  [][/\ ev'.op = "acked" /\ ev'.n = ev.n + 1
     /\ cfg.search_double_cross_exit # 0
     /\ ca.found = 0 /\ ca'.found >= FOUND_SSTHRESH_SEARCH
     => /\ ca.factor >= search_exit_thresh
        /\ ca'.factor >= search_exit_thresh]_vars

(***************************************************************************)
(* The rollback of cubic_search at the exit.  The flow has stored the bins *)
(* 0 .. 12 at scale factor sf: the cumulative count (in units of 2^sf      *)
(* bytes) is 0 up to bin 1, a up to bin 8 and a + t from bin 9 on; b more  *)
(* units are acknowledged when the sample that stores bin 13 arrives.      *)
(***************************************************************************)
RollbackScaleSet == {0, 2}
RollbackBaseSet == {30000}
RollbackUnitsSet == {0, 1460, 2920, 14600}
RollbackCwndSet == {2, 16, 100}

RollbackBins(a, t) ==
  [i \in 0 .. SEARCH_TOTAL_BINS - 1 |->
     IF i <= 1 THEN 0 ELSE IF i <= 8 THEN a ELSE IF i <= 12 THEN a + t ELSE 0]

InitRollback ==
  \E sf \in RollbackScaleSet, a \in RollbackBaseSet, t \in RollbackUnitsSet,
     b \in RollbackUnitsSet, w \in RollbackCwndSet, rb \in {0, 1} :
    /\ cfg = [DefaultCfg(<<"cubic_search", SS_EXIT_POINT_SEARCH, 0>>)
                EXCEPT !.cwnd_rollback = rb]
    /\ clk = [jiffies |-> 0, mstamp |-> 500, ticks |-> 0]
    /\ ca = [ZeroCa EXCEPT !.delay_min = 70,
                           !.un = [ZeroUnion EXCEPT !.w0 = 35, !.w1 = 12, !.w2 = 490,
                                                    !.bin = RollbackBins(a, t),
                                                    !.scale_factor = sf]]
    /\ tp = [InitTp(MinRttUnknown) EXCEPT !.snd_cwnd = w,
                                          !.bytes_acked = (a + t + b) * (2^sf)]
    /\ heap = ZeroHeap
    /\ ev = [op |-> "init", arg |-> 0, path |-> "none", n |-> 0]
    /\ gh = FreshGh

NextRollback == ev.n < 1 /\ \E r \in TrendRttSet : Acked(r, PlainEnv)

SpecRollback == InitRollback /\ [][NextRollback]_vars

\* the sample makes the detector declare the exit, with the rollback enabled
RollbackExit ==
  /\ ev'.op = "acked" /\ ev.n = 0 /\ cfg.cwnd_rollback = 1
  /\ tp'.snd_ssthresh # tp.snd_ssthresh

\* the bin that ended 2 initial RTTs before the current one
CongIdx ==
  ca'.un.w1 - (2 * ((ca'.un.w0 * SEARCH_BINS * 10) \div cfg.search_window_size_time))
                \div ca'.un.w0

\* the bytes delivered since the end of that bin: the scale factor did not
\* change in the step, and the counts are whole multiples of 2^scale_factor
OvershootBytes == tp.bytes_acked - ca.un.bin[CongIdx] * (2^ca.un.scale_factor)

RolledBack(cwnd, overshoot) ==
  IF overshoot < cwnd THEN Max(cwnd - overshoot, TCP_INIT_CWND) ELSE TCP_INIT_CWND

\* C32 as stated: with rollback enabled, the exit sets cwnd to
\* max(old cwnd - overshoot, TCP_INIT_CWND) when overshoot < old cwnd and to
\* TCP_INIT_CWND otherwise, overshoot being the bytes delivered since 2
\* initial RTTs before the current bin divided by the MSS; ssthresh is then
\* the new cwnd.
C32_RollbackByDeliveredBytes ==
  [][RollbackExit
     => /\ tp'.snd_cwnd = RolledBack(tp.snd_cwnd, OvershootBytes \div MssCache)
        /\ tp'.snd_ssthresh = tp'.snd_cwnd]_vars

\* what the code does: the overshoot is the difference of the stored bin
\* values, which are byte counts shifted right by the scale factor
C32_RollbackByBinUnits ==
  [][RollbackExit
     => /\ tp'.snd_cwnd
             = RolledBack(tp.snd_cwnd,
                          (ca'.un.bin[ca'.un.w1] - ca'.un.bin[CongIdx]) \div MssCache)
        /\ tp'.snd_ssthresh = tp'.snd_cwnd]_vars

(***************************************************************************)
(* The bin index of the delivery-trend detector across ACK samples.        *)
(***************************************************************************)
BinIndex(c) == IF cfg.engine = "cubicv2" THEN c.index ELSE c.un.w1
BinBoundary(c) == IF cfg.engine = "cubicv2" THEN c.epoch_expires_us ELSE c.un.w2
BinDuration(c) == IF cfg.engine = "cubicv2" THEN c.epoch_dur_us ELSE c.un.w0

\* an ACK sample that the delivery-trend detector takes in and that does
\* not reset it: search_update with bins running and fewer than 3 bins
\* passed, hystart_search_update with the epoch fields set
SearchSampleStep ==
  /\ ev'.op = "acked" /\ ev'.n = ev.n + 1 /\ ev'.path = "sample"
  /\ heap'.oops = "none"
  /\ BinDuration(ca) # 0
  /\ IF cfg.engine = "cubicv2"
     THEN /\ cfg.search_enable_mode # 0 /\ tcp_in_slow_start(tp)
          /\ ca.found = 0 /\ ca'.found # 1
          /\ ca.epoch_expires_us # 0
     ELSE /\ cfg.slow_start_mode = SS_EXIT_POINT_SEARCH
          /\ PassedBins < 3

\* the code's test for the end of the bin
CrossesBoundary ==
  IF cfg.engine = "cubicv2" THEN clk.mstamp >= ca.epoch_expires_us
  ELSE clk.mstamp > ca.un.w2

\* d boundaries have elapsed at the time of the sample: the d-th is not
\* after it and the one that follows is not before it
ElapsedBoundaries(d) ==
  /\ BinBoundary(ca) + (d - 1) * BinDuration(ca) <= clk.mstamp
  /\ clk.mstamp <= BinBoundary(ca) + d * BinDuration(ca)

\* C33 as stated: between two resets of the detector the bin index never
\* decreases across ACK samples; a sample that crosses a bin boundary
\* raises it by exactly the number of bin boundaries that have elapsed,
\* at least 1, and moves the bin boundary by that many bin durations.
C33_IndexFollowsBoundaries ==
  [][SearchSampleStep
     => /\ BinIndex(ca') >= BinIndex(ca)
        /\ CrossesBoundary
           => /\ BinIndex(ca') - BinIndex(ca) >= 1
              /\ ElapsedBoundaries(BinIndex(ca') - BinIndex(ca))
              /\ BinBoundary(ca')
                   = BinBoundary(ca) + (BinIndex(ca') - BinIndex(ca)) * BinDuration(ca)]_vars

\* the part of C33 that the code keeps: the index never decreases, and a
\* sample that comes after the bin boundary raises it by the number of
\* boundaries elapsed and moves the boundary as far, unless it is the
\* sample that declares the exit in cubicv2, which leaves the boundary
C33_IndexAfterBoundary ==
  [][SearchSampleStep
     => /\ BinIndex(ca') >= BinIndex(ca)
        /\ clk.mstamp > BinBoundary(ca)
           => /\ BinIndex(ca') - BinIndex(ca) >= 1
              /\ ElapsedBoundaries(BinIndex(ca') - BinIndex(ca))
              /\ \/ cfg.engine = "cubicv2" /\ ca'.found # 0
                 \/ BinBoundary(ca')
                      = BinBoundary(ca)
                          + (BinIndex(ca') - BinIndex(ca)) * BinDuration(ca)]_vars

(***************************************************************************)
(* The bin-boundary branch of hystart_search_update.                       *)
(***************************************************************************)
\* an ACK sample that reaches hystart_search_update and runs it to its end
DevSearchStep ==
  /\ ev'.op = "acked" /\ ev'.n = ev.n + 1 /\ ev'.path = "sample"
  /\ cfg.engine = "cubicv2" /\ cfg.search_enable_mode # 0
  /\ tcp_in_slow_start(tp) /\ ca.found = 0 /\ ca'.found # 1
  /\ heap'.oops = "none"

\* the detector's fields when the branch is tested: after the reset and
\* the clamp of the duration with which hystart_search_update begins
EpochBefore ==
  With(IF ca.epoch_expires_us = 0 \/ ca.epoch_dur_us = 0
       THEN dev_bictcp_search_reset(M, clk.mstamp, TRUE).ca ELSE ca,
       LAMBDA c : [c EXCEPT !.epoch_dur_us = IF @ = 0 THEN 1 ELSE @])

BranchEntered == clk.mstamp >= EpochBefore.epoch_expires_us

\* the bin of the new index was opened at 0 in this call: it holds what the
\* sample added, nothing when the sample declared the exit
FreshBin ==
  heap'.buf[ca'.index % TOTAL_NUM_BINS]
    = IF ca'.found # 0 THEN 0 ELSE tp.bytes_acked - EpochBefore.bytes_acked_prev

\* C34 as stated: whenever hystart_search_update enters the bin-boundary
\* branch (now >= epoch_expires_us) the missed-bin loop runs at least once:
\* the index advances and a fresh zeroed bin is opened before the exit
\* check.
C34_LoopRunsAtLeastOnce ==
  [][DevSearchStep /\ BranchEntered
     => ca'.index >= EpochBefore.index + 1 /\ FreshBin]_vars

\* the part of C34 that the code keeps: the loop runs when the sample comes
\* after the boundary
C34_LoopRunsAfterBoundary ==
  [][DevSearchStep /\ clk.mstamp > EpochBefore.epoch_expires_us
     => ca'.index >= EpochBefore.index + 1 /\ FreshBin]_vars

(***************************************************************************)
(* The delay-increase test of HyStart.  The flow is in a round that has    *)
(* counted k samples, all of 300000 us, after an earlier minimum of d; the *)
(* samples that follow lie at and just above the thresholds of the three   *)
(* values of d.                                                            *)
(***************************************************************************)
RoundMinSet == {60, 40000, 200000}
RoundCntSet == {0, 7, 8}
RoundRttSet == {4060, 4061, 45001, 216001}
RoundDetectSet == {HYSTART_DELAY, HYSTART_ACK_TRAIN + HYSTART_DELAY}
MaxRoundEvents == 3

InitRound ==
  \E mode \in {<<"cubic_search", SS_EXIT_POINT_HYSTART, 0>>, <<"cubicv2", 1, 0>>},
     d \in RoundMinSet, k \in RoundCntSet, w \in DetectCwndSet, det \in RoundDetectSet :
    /\ cfg = [DefaultCfg(mode) EXCEPT !.hystart_detect = det]
    /\ clk = [jiffies |-> 0, mstamp |-> 0, ticks |-> 0]
    /\ \E h \in {[unused |-> 0, sample_cnt |-> k, found |-> 0, round_start |-> 0,
                  end_seq |-> 0, last_ack |-> 0,
                  curr_rtt |-> IF k = 0 THEN CurrRttMax ELSE 300000]} :
         ca = IF mode[1] = "cubicv2"
              THEN [ZeroCa EXCEPT !.delay_min = d, !.sample_cnt = h.sample_cnt,
                                  !.curr_rtt = h.curr_rtt]
              ELSE [ZeroCa EXCEPT !.delay_min = d, !.un = HsPut(ZeroUnion, h)]
    /\ tp = [InitTp(MinRttUnknown) EXCEPT !.snd_cwnd = w]
    /\ heap = ZeroHeap
    /\ ev = [op |-> "init", arg |-> 0, path |-> "none", n |-> 0]
    /\ gh = FreshGh

NextRound ==
  /\ ev.n < MaxRoundEvents
  /\ \/ \E d \in TickUsSet : TickUs(d)
     \/ \E b \in {MssCache} : TransportAck(b)
     \/ \E r \in RoundRttSet : Acked(r, PlainEnv)

SpecRound == InitRound /\ [][NextRound]_vars

\* the HyStart fields of the flow
Hs(c) ==
  IF cfg.engine = "cubicv2"
  THEN [sample_cnt |-> c.sample_cnt, found |-> c.found, round_start |-> c.round_start,
        end_seq |-> c.end_seq, last_ack |-> c.last_ack, curr_rtt |-> c.curr_rtt]
  ELSE HsGet(c.un)

\* the round the sample belongs to: cubicv2 opens a new one when the
\* acknowledged data has passed end_seq
Round ==
  IF cfg.engine = "cubicv2" /\ tp.bytes_acked - ca.end_seq > 0
  THEN [Hs(ca) EXCEPT !.sample_cnt = 0, !.curr_rtt = CurrRttMax,
                      !.round_start = clk.mstamp, !.last_ack = clk.mstamp]
  ELSE Hs(ca)

\* an ACK sample on which HyStart is consulted, the delay test enabled
HystartStep ==
  /\ ev'.op = "acked" /\ ev'.n = ev.n + 1 /\ ev'.path = "sample"
  /\ IF cfg.engine = "cubicv2" THEN cfg.hystart # 0
     ELSE cfg.slow_start_mode = SS_EXIT_POINT_HYSTART
  /\ Hs(ca).found = 0 /\ tcp_in_slow_start(tp) /\ tp.snd_cwnd >= hystart_low_window
  /\ (cfg.hystart_detect \div HYSTART_DELAY) % 2 = 1

\* the other test, the ACK train, declares the exit on this sample
TrainHit ==
  /\ (cfg.hystart_detect \div HYSTART_ACK_TRAIN) % 2 = 1
  /\ clk.mstamp - Round.last_ack <= hystart_ack_delta_us
  /\ clk.mstamp - Round.round_start
       > (IF tp.pacing_none THEN (ca'.delay_min + hystart_ack_delay(tp)) \div 2
          ELSE ca'.delay_min + hystart_ack_delay(tp))

\* the minimum RTT of the round, the sample included
RoundMin ==
  IF Round.curr_rtt = CurrRttMax \/ Round.curr_rtt > ev'.arg THEN ev'.arg
  ELSE Round.curr_rtt

DelayExceeded ==
  RoundMin > ca'.delay_min + Min(Max(ca'.delay_min \div 8, 4000), 16000)

\* C35: the delay-increase test never declares the exit while fewer than 8
\* samples have been counted in the round (it counts the sample instead);
\* once 8 have been counted it declares the exit (found = 1, ssthresh =
\* cwnd) exactly when the round's minimum RTT exceeds
\* delay_min + clamp(delay_min / 8, 4000 us, 16000 us).
C35_DelayIncrease ==
  [][HystartStep
     => /\ Round.sample_cnt < HYSTART_MIN_SAMPLES
           => /\ Hs(ca').sample_cnt = Round.sample_cnt + 1
              /\ ~TrainHit => Hs(ca').found = 0 /\ tp'.snd_ssthresh = tp.snd_ssthresh
        /\ Round.sample_cnt >= HYSTART_MIN_SAMPLES
           => /\ DelayExceeded => Hs(ca').found = 1 /\ tp'.snd_ssthresh = tp.snd_cwnd
              /\ ~DelayExceeded /\ ~TrainHit
                 => Hs(ca').found = 0 /\ tp'.snd_ssthresh = tp.snd_ssthresh]_vars

\* the ninth sample of a round has declared the exit by the delay test
\* alone, its RTT one microsecond above the threshold
C35_Witness ==
  /\ ev.op = "acked" /\ ev.arg = 4061 /\ cfg.hystart_detect = HYSTART_DELAY
  /\ Hs(ca).found = 1 /\ Hs(ca).sample_cnt = HYSTART_MIN_SAMPLES
  /\ Hs(ca).curr_rtt = 4061 /\ ca.delay_min = 60
  /\ tp.snd_ssthresh = tp.snd_cwnd

(***************************************************************************)
(* The gate of HyStart in the ACK handler.                                 *)
(***************************************************************************)
\* HyStart is the configured detector of the flow
HystartOn ==
  IF cfg.engine = "cubicv2" THEN cfg.hystart # 0
  ELSE cfg.slow_start_mode = SS_EXIT_POINT_HYSTART

\* the fields that only HyStart uses
HsFields(c) ==
  <<Hs(c).sample_cnt, Hs(c).round_start, Hs(c).end_seq, Hs(c).last_ack, Hs(c).curr_rtt>>

LossStep == ev'.op = "set_state" /\ ev'.arg = 1

RingRttSet == {70, 455, 490, 700, 875}
MaxRingEvents == 2

InitRingSearch ==
  \E b \in {0, 1000} :
    /\ cfg = DefaultCfg(<<"cubic_search", SS_EXIT_POINT_SEARCH, 0>>)
    /\ clk = [jiffies |-> 1, mstamp |-> JIFFY_US, ticks |-> 0]
    /\ ca = [ZeroCa EXCEPT !.delay_min = 70,
                           !.un = [ZeroUnion EXCEPT !.w0 = 35, !.w1 = 30,
                                                    !.w2 = JIFFY_US - 10,
                                                    !.bin = ScaleBins(1000, 30)]]
    /\ tp = [InitTp(MinRttUnknown) EXCEPT !.bytes_acked = 31000 + b]
    /\ heap = ZeroHeap
    /\ ev = [op |-> "init", arg |-> 0, path |-> "none", n |-> 0]
    /\ gh = FreshGh

InitRing == InitRingSearch \/ InitCross

NextRing ==
  /\ ev.n < MaxRingEvents
  /\ \/ \E d \in CrossTickSet : TickUs(d)
     \/ \E r \in RingRttSet : Acked(r, PlainEnv)

SpecRing == InitRing /\ [][NextRing]_vars

RingSize == IF cfg.engine = "cubicv2" THEN TOTAL_NUM_BINS ELSE SEARCH_TOTAL_BINS

\* the index at which the previous window ends: prev_idx of search_update,
\* index_prev of search_exit_slowstart
PrevEnd ==
  IF cfg.engine = "cubicv2" THEN (ca'.index - 1) - ev'.arg \div ca.epoch_dur_us
  ELSE ca'.un.w1 - ev'.arg \div ca.un.w0

\* the sample gets as far as summing the two windows
WindowsSummed ==
  /\ SearchSampleStep /\ CrossesBoundary
  /\ IF cfg.engine = "cubicv2"
     THEN /\ PrevEnd >= TOTAL_NUM_BINS - 1
          /\ (ca'.index - 1) - (PrevEnd - LOOK_BACK_WINDOW + 1) + 1 >= TOTAL_NUM_BINS
     ELSE /\ PrevEnd >= SEARCH_BINS
          /\ ca'.un.w1 - PrevEnd < SEARCH_EXTRA_BINS - 1

\* the oldest bin index that the two sums read
OldestRead ==
  IF cfg.engine = "cubicv2" THEN PrevEnd - LOOK_BACK_WINDOW + 1
  ELSE IF PrevEnd - SEARCH_BINS = 0 THEN 0
  ELSE PrevEnd - SEARCH_BINS - 1

\* C37 as stated: whenever the detector sums the current and the previous
\* window, every bin it reads is one of the most recent TOTAL_BINS bin
\* indices (binIndex - TOTAL_BINS < i <= binIndex), so no slot of the ring
\* is read after a newer bin has overwritten it.
C37_ReadsWithinRing ==
  [][WindowsSummed => OldestRead > BinIndex(ca') - RingSize]_vars

\* the part of C37 that the code keeps: the reads of cubic_search
C37_SearchReadsWithinRing ==
  [][WindowsSummed /\ cfg.engine = "cubic_search"
     => OldestRead > BinIndex(ca') - RingSize]_vars

\* the reads of cubicv2: whenever the two windows are summed, the oldest
\* bin read is at least a whole ring behind the index
C37_DevReadsBehindRing ==
  [][WindowsSummed /\ cfg.engine = "cubicv2"
     => OldestRead <= BinIndex(ca') - RingSize]_vars

(***************************************************************************)
(* The indices with which cubic_search accesses search.bin.                *)
(***************************************************************************)
\* the bins of a window from index1 to index2, as
\* search_compute_delivered_window indexes them
WindowAccesses(index1, index2) ==
  {CMod(index2 - 1, SEARCH_TOTAL_BINS), CMod(index1, SEARCH_TOTAL_BINS),
   CMod(index2, SEARCH_TOTAL_BINS)}
    \cup (IF index1 = 0 THEN {} ELSE {CMod(index1 - 1, SEARCH_TOTAL_BINS)})

\* the subscripts of search.bin in a call of search_update that passes a
\* bin boundary without a reset: the missed bin and the bin copied into
\* it, the bin stored, the bins of the two windows
BinAccesses ==
  (IF PassedBins = 2
   THEN {U32Mod(U32Add(ca.un.w1, 1), SEARCH_TOTAL_BINS)}
          \cup (IF ca.un.w1 >= 0 THEN {ca.un.w1} ELSE {})
   ELSE {})
    \cup {CMod(ca'.un.w1, SEARCH_TOTAL_BINS)}
    \cup (IF WindowsSummed
          THEN WindowAccesses(ca'.un.w1 - SEARCH_BINS, ca'.un.w1)
                 \cup WindowAccesses(PrevEnd - SEARCH_BINS, PrevEnd)
          ELSE {})

SearchBinStep ==
  SearchSampleStep /\ CrossesBoundary /\ cfg.engine = "cubic_search"

\* C38 as stated: every access to the bin array uses an index in
\* [0, TOTAL_BINS).
C38_IndexInRange ==
  [][SearchBinStep => \A k \in BinAccesses : 0 <= k /\ k < SEARCH_TOTAL_BINS]_vars

\* the part of C38 that the code keeps: the subscripts that are reduced
\* modulo SEARCH_TOTAL_BINS are in range, no negative index being reduced
C38_ReducedInRange ==
  [][SearchBinStep
     => \A k \in BinAccesses \ (IF PassedBins = 2 THEN {ca.un.w1} ELSE {}) :
          0 <= k /\ k < SEARCH_TOTAL_BINS]_vars

====
